---- MODULE Spec2Model ----
(***************************************************************************)
(* Model of the simulated serverless substrate of the tournament backend:  *)
(*   - MockAWS.send_sqs / receive_sqs (src/lambdas.py): one JSON file per   *)
(*     queue, read whole, changed in memory, written whole, with no lock;  *)
(*   - APIGateway (src/gateway.py): sliding-window rate limiter, the        *)
(*     routing pipeline and the request log.                                *)
(* Each process that uses a queue is modelled step by step, one action per  *)
(* access to the queue file, so that the accesses of several processes      *)
(* interleave as the operating system lets them.                            *)
(***************************************************************************)
EXTENDS Integers, Sequences, FiniteSets, TLC

VARIABLES
  files,      \* sqs_dir: queue name -> [exists, data]; data is the file's text
  pc,         \* per process: where it is inside send_sqs / receive_sqs
  loc,        \* per process: the locals of the running call
  role,       \* per process: which calls it makes ("producer", "consumer", "any", "off")
  preload,    \* history: the messages each queue held when the run started
  opLog,      \* history: the calls that ended, in the order they ended
  now,        \* time.time(), in seconds
  ticks,      \* history: how many times the clock has advanced
  rate_limit_window,        \* APIGateway.rate_limit_window
  max_requests_per_window,  \* APIGateway.max_requests_per_window
  rate_limit, \* APIGateway.rate_limit: client -> list of timestamps
  request_log,\* APIGateway.request_log
  last,       \* history: the last gateway call, its inputs and what it returned
  checks,     \* history: every _check_rate_limit call (client, time, result)
  handler_calls, \* history: how many times route called a handler
  sns_log,    \* state_dir/sns_log.txt: [exists, data]; data is the list of its lines
  wk,         \* the worker process: where main is, and the history of its loop
  stage,      \* history: the last invoke_lambda call, its inputs and its outcome
  app         \* the Flask application: its tables, the historian's backup file,
              \* and the request it is handling or has handled last

queueVars == <<files, pc, loc, role, preload, opLog>>
gwVars == <<now, ticks, rate_limit_window, max_requests_per_window, rate_limit,
            request_log, last, checks, handler_calls>>
stageVars == <<sns_log, wk, stage, app>>
vars == <<files, pc, loc, role, preload, opLog, now, ticks, rate_limit_window,
          max_requests_per_window, rate_limit, request_log, last, checks,
          handler_calls, sns_log, wk, stage, app>>

(***************************************************************************)
(* Bounds of the model.                                                    *)
(***************************************************************************)
NProcs == 2          \* processes sharing the state directory
MaxOps == 5          \* queue calls started in one sequential run
MaxConcOps == 3      \* queue calls started in one concurrent run
MaxQueueOps == 4     \* queue calls started in one run over damaged queue files

Procs == 1..NProcs

QUEUE_NAME == "lutas"
QueueNames == {QUEUE_NAME, "resultados"}

(***************************************************************************)
(* Messages: a JSON object, kept as the list of its (key, value) members   *)
(* in insertion order, as a Python dict keeps them.  Keys and values are   *)
(* strings.  EmptyMsg is the dict {}.                                       *)
(***************************************************************************)
Msg1 == << <<"luta_id", "LUTA-1">>, <<"round", "Final">> >>
Msg2 == << <<"luta_id", "LUTA-2">> >>
EmptyMsg == << >>
\* the messages the processes send, and those a queue file may hold
Msgs == {Msg1, EmptyMsg}
StoredMsgs == Msgs \cup {Msg2}

(***************************************************************************)
(* JSON text, as a sequence of tokens: punctuation <<"p", c>> and string   *)
(* literals <<"s", text>>.  A member of an object is <<key, text>> when    *)
(* its value is a string and <<key, "list", items>> when its value is a    *)
(* list of objects.                                                         *)
(***************************************************************************)
P(c) == <<"p", c>>
S(s) == <<"s", s>>

RECURSIVE DumpMembers(_), DumpElements(_)

DumpObject(obj) == <<P("{")>> \o DumpMembers(obj) \o <<P("}")>>

DumpElements(list) ==
  IF list = << >> THEN << >>
  ELSE DumpObject(list[1])
       \o (IF Len(list) = 1 THEN << >> ELSE <<P(",")>> \o DumpElements(Tail(list)))

\* json.dumps(payload, indent=2, ensure_ascii=False) of a list of objects
json_dumps(list) == <<P("[")>> \o DumpElements(list) \o <<P("]")>>

DumpMembers(obj) ==
  IF obj = << >> THEN << >>
  ELSE <<S(obj[1][1]), P(":")>>
       \o (IF Len(obj[1]) = 2 THEN <<S(obj[1][2])>> ELSE json_dumps(obj[1][3]))
       \o (IF Len(obj) = 1 THEN << >> ELSE <<P(",")>> \o DumpMembers(Tail(obj)))

\* the literal "[]" that _queue_file writes
EmptyArrayText == <<P("["), P("]")>>

Tok(t, i) == IF i >= 1 /\ i <= Len(t) THEN t[i] ELSE <<"eof", "">>
Bad == [ok |-> FALSE, val |-> << >>, next |-> 0]

\* dict assignment d[k] = v: a key met again keeps its place and takes the new
\* value; m is the member <<k, ...>>
SetKey(obj, k, m) ==
  IF \E i \in 1..Len(obj) : obj[i][1] = k
  THEN [i \in 1..Len(obj) |-> IF obj[i][1] = k THEN m ELSE obj[i]]
  ELSE Append(obj, m)

RECURSIVE ParseMembers(_, _, _), ParseElements(_, _, _)

ParseObject(t, i) ==
  IF Tok(t, i) # P("{") THEN Bad
  ELSE IF Tok(t, i + 1) = P("}") THEN [ok |-> TRUE, val |-> << >>, next |-> i + 2]
  ELSE ParseMembers(t, i + 1, << >>)

ParseElements(t, i, acc) ==
  LET o == ParseObject(t, i) IN
  IF ~o.ok THEN Bad
  ELSE IF Tok(t, o.next) = P(",") THEN ParseElements(t, o.next + 1, Append(acc, o.val))
  ELSE IF Tok(t, o.next) = P("]")
       THEN [ok |-> TRUE, val |-> Append(acc, o.val), next |-> o.next + 1]
  ELSE Bad

\* a list of objects that starts at token i
ParseArray(t, i) ==
  IF Tok(t, i) # P("[") THEN Bad
  ELSE IF Tok(t, i + 1) = P("]") THEN [ok |-> TRUE, val |-> << >>, next |-> i + 2]
  ELSE ParseElements(t, i + 1, << >>)

ParseMembers(t, i, acc) ==
  IF Tok(t, i)[1] = "s" /\ Tok(t, i + 1) = P(":")
  THEN LET k == t[i][2]
           v == IF Tok(t, i + 2)[1] = "s"
                THEN [ok |-> TRUE, val |-> <<k, t[i + 2][2]>>, next |-> i + 3]
                ELSE LET a == ParseArray(t, i + 2) IN
                     [ok |-> a.ok, val |-> <<k, "list", a.val>>, next |-> a.next]
       IN IF ~v.ok THEN Bad
          ELSE IF Tok(t, v.next) = P(",")
               THEN ParseMembers(t, v.next + 1, SetKey(acc, k, v.val))
          ELSE IF Tok(t, v.next) = P("}")
               THEN [ok |-> TRUE, val |-> SetKey(acc, k, v.val), next |-> v.next + 1]
          ELSE Bad
  ELSE Bad

\* json.loads(text) where a list of objects is expected; ok = FALSE is
\* JSONDecodeError (text after the closing bracket included)
json_loads(t) ==
  LET a == ParseArray(t, 1) IN
  IF a.ok /\ a.next = Len(t) + 1 THEN a ELSE Bad

(***************************************************************************)
(* Files.  Path.write_text opens the file for writing, which creates or    *)
(* empties it, and then writes the text from offset 0: two system calls.   *)
(* A text written from offset 0 over a longer one leaves the longer one's  *)
(* end in place.                                                            *)
(***************************************************************************)
Absent == [exists |-> FALSE, data |-> << >>]
FileOf(text) == [exists |-> TRUE, data |-> text]

OpenForWrite(f) == [exists |-> TRUE, data |-> << >>]

WriteAtStart(f, text) ==
  [exists |-> TRUE,
   data |-> text \o (IF Len(f.data) > Len(text)
                     THEN SubSeq(f.data, Len(text) + 1, Len(f.data))
                     ELSE << >>)]

(***************************************************************************)
(* send_sqs and receive_sqs, one action per access to the queue file.      *)
(***************************************************************************)
Idle == [kind |-> "none", queue |-> QUEUE_NAME, msg |-> << >>,
         payload |-> << >>, text |-> << >>]

\* payload.pop(0): the message taken and the list that is left
PopLast(payload) ==
  [message |-> payload[Len(payload)], rest |-> SubSeq(payload, 1, Len(payload) - 1)]

PopFirst(payload) == [message |-> Head(payload), rest |-> Tail(payload)]

\* _queue_file: self.sqs_dir / f"{queue_name}.json", the file of the queue
OnePath(queue_name) == QUEUE_NAME

QueuePath(queue_name) == queue_name

OpsStarted == Len(opLog) + Cardinality({p \in Procs : pc[p] # "idle"})

MayCall(p, kind) ==
  \/ role[p] = "any" /\ OpsStarted < MaxOps
  \/ role[p] = "producer" /\ kind = "send" /\ OpsStarted < MaxConcOps
  \/ role[p] = "consumer" /\ kind = "recv" /\ OpsStarted < MaxConcOps
  \/ role[p] = "caller" /\ OpsStarted < MaxQueueOps

Ended(p, res, msg) ==
  [proc |-> p, kind |-> loc[p].kind, queue |-> loc[p].queue, msg |-> msg, res |-> res]

\* the call, up to _queue_file's file_path.exists()
QueueFile(p) ==
  /\ pc[p] = "idle"
  /\ \E kind \in {"send", "recv"}, q \in QueueNames, m \in Msgs :
       /\ MayCall(p, kind)
       /\ kind = "recv" => m = EmptyMsg
       /\ loc' = [loc EXCEPT ![p] = [Idle EXCEPT !.kind = kind, !.queue = q, !.msg = m]]
       /\ pc' = [pc EXCEPT ![p] = IF files[QueuePath(q)].exists THEN "read" ELSE "create_open"]
  /\ UNCHANGED <<files, role, preload, opLog, gwVars, stageVars>>

\* _queue_file: file_path.write_text("[]"), the open
CreateOpen(p) ==
  /\ pc[p] = "create_open"
  /\ files' = [files EXCEPT ![QueuePath(loc[p].queue)] = OpenForWrite(@)]
  /\ pc' = [pc EXCEPT ![p] = "create_write"]
  /\ UNCHANGED <<loc, role, preload, opLog, gwVars, stageVars>>

\* _queue_file: file_path.write_text("[]"), the write
CreateWrite(p) ==
  /\ pc[p] = "create_write"
  /\ files' = [files EXCEPT ![QueuePath(loc[p].queue)] = WriteAtStart(@, EmptyArrayText)]
  /\ pc' = [pc EXCEPT ![p] = "read"]
  /\ UNCHANGED <<loc, role, preload, opLog, gwVars, stageVars>>

\* json.loads(file_path.read_text()), and what follows it in memory
ReadText(p) ==
  /\ pc[p] = "read"
  /\ LET r == json_loads(files[QueuePath(loc[p].queue)].data) IN
     IF ~r.ok
     THEN \* JSONDecodeError leaves the call
          /\ opLog' = Append(opLog, Ended(p, "error", << >>))
          /\ pc' = [pc EXCEPT ![p] = "idle"]
          /\ loc' = [loc EXCEPT ![p] = Idle]
     ELSE IF loc[p].kind = "send"
     THEN LET payload == Append(r.val, loc[p].msg) IN
          /\ loc' = [loc EXCEPT ![p].payload = payload, ![p].text = json_dumps(payload)]
          /\ pc' = [pc EXCEPT ![p] = "write_open"]
          /\ UNCHANGED opLog
     ELSE IF r.val = << >>
     THEN \* return None
          /\ opLog' = Append(opLog, Ended(p, "none", << >>))
          /\ pc' = [pc EXCEPT ![p] = "idle"]
          /\ loc' = [loc EXCEPT ![p] = Idle]
     ELSE LET popped == PopFirst(r.val) IN
          /\ loc' = [loc EXCEPT ![p].msg = popped.message,
                                ![p].payload = popped.rest,
                                ![p].text = json_dumps(popped.rest)]
          /\ pc' = [pc EXCEPT ![p] = "write_open"]
          /\ UNCHANGED opLog
  /\ UNCHANGED <<files, role, preload, gwVars, stageVars>>

\* file_path.write_text(json.dumps(payload, ...)), the open
WriteOpen(p) ==
  /\ pc[p] = "write_open"
  /\ files' = [files EXCEPT ![QueuePath(loc[p].queue)] = OpenForWrite(@)]
  /\ pc' = [pc EXCEPT ![p] = "write_data"]
  /\ UNCHANGED <<loc, role, preload, opLog, gwVars, stageVars>>

\* file_path.write_text(json.dumps(payload, ...)), the write, and the return
WriteData(p) ==
  /\ pc[p] = "write_data"
  /\ files' = [files EXCEPT ![QueuePath(loc[p].queue)] = WriteAtStart(@, loc[p].text)]
  /\ opLog' = Append(opLog, Ended(p, "ok", loc[p].msg))
  /\ pc' = [pc EXCEPT ![p] = "idle"]
  /\ loc' = [loc EXCEPT ![p] = Idle]
  /\ UNCHANGED <<role, preload, gwVars, stageVars>>

QueueStep ==
  \E p \in Procs :
    \/ QueueFile(p)
    \/ CreateOpen(p)
    \/ CreateWrite(p)
    \/ ReadText(p)
    \/ WriteOpen(p)
    \/ WriteData(p)

(***************************************************************************)
(* APIGateway: the rate limiter.  Time is in whole seconds.  The window    *)
(* and the ceiling are attributes of the gateway object (60 and 100 after  *)
(* __init__); the model runs the gateway under a few small settings of     *)
(* them, and under the window of 60 seconds with a ceiling of 3.           *)
(***************************************************************************)
MaxChecks == 5       \* _check_rate_limit calls in one run
MaxRequests == 3     \* route calls in one run
MaxTicks == 2        \* times the clock advances in one run of the rate limiter
MaxRouteTicks == 1   \* times the clock advances in one run of route

Clients == {"127.0.0.1", "10.0.0.7"}

Settings ==
  { [window |-> 2, ceiling |-> 1],
    [window |-> 2, ceiling |-> 2],
    [window |-> 60, ceiling |-> 3] }

RouteSettings ==
  { [window |-> 2, ceiling |-> 1],
    [window |-> 2, ceiling |-> 2] }

NoStamps == [c \in {} |-> << >>]

\* self.rate_limit[client_ip] once line 27 has run
Stamps(c) == IF c \in DOMAIN rate_limit THEN rate_limit[c] ELSE << >>

\* now - ts < self.rate_limit_window
InWindowInclusive(ts, t) == t - ts <= rate_limit_window

InWindow(ts, t) == t - ts < rate_limit_window

\* the list comprehension of lines 30-32
NotPurged(list, t) == list

Purged(list, t) == SelectSeq(list, LAMBDA ts : InWindow(ts, t))

\* len(self.rate_limit[client_ip]) >= self.max_requests_per_window
OverLimitStrict(list) == Len(list) > max_requests_per_window

OverLimit(list) == Len(list) >= max_requests_per_window

\* one list of timestamps shared by every client
SetStampsShared(c, list) == [k \in DOMAIN rate_limit \cup {c} |-> list]

\* _check_rate_limit: what it returns and the list it leaves for the client
AppendAlways(c) ==
  LET kept == Purged(Stamps(c), now) IN
  [admitted |-> ~OverLimit(kept), stamps |-> Append(kept, now)]

check_rate_limit(c) ==
  LET kept == Purged(Stamps(c), now) IN
  IF OverLimit(kept) THEN [admitted |-> FALSE, stamps |-> kept]
  ELSE [admitted |-> TRUE, stamps |-> Append(kept, now)]

SetStamps(c, list) ==
  [k \in DOMAIN rate_limit \cup {c} |-> IF k = c THEN list ELSE rate_limit[k]]

NoHandler == [kind |-> "none", len |-> 0, body |-> <<"", "">>, status |-> 0,
              exc |-> "", text |-> ""]

NoCall == [op |-> "none", client |-> "", at |-> 0, admitted |-> FALSE,
           handler |-> NoHandler, method |-> "", path |-> "",
           status_code |-> 0, body |-> <<"", "">>, invoked |-> 0,
           raised |-> FALSE, before |-> NoStamps, logged |-> 0,
           has_key |-> FALSE, stats |-> << >>, prev_stats |-> << >>,
           log_before |-> << >>]

\* a direct call of _check_rate_limit
CheckRateLimit ==
  /\ Len(checks) < MaxChecks
  /\ \E c \in Clients :
       LET r == check_rate_limit(c) IN
       /\ rate_limit' = SetStamps(c, r.stamps)
       /\ checks' = Append(checks, [client |-> c, at |-> now, admitted |-> r.admitted])
       /\ last' = [NoCall EXCEPT !.op = "check", !.client = c, !.at = now,
                                 !.admitted = r.admitted, !.before = rate_limit,
                                 !.logged = Len(request_log)]
  /\ UNCHANGED <<now, ticks, rate_limit_window, max_requests_per_window,
                 request_log, handler_calls, queueVars, stageVars>>

\* the clock advances; nothing else happens
Tick(limit) ==
  /\ ticks < limit
  /\ \E d \in {1, rate_limit_window} : now' = now + d
  /\ ticks' = ticks + 1
  /\ UNCHANGED <<rate_limit_window, max_requests_per_window, rate_limit,
                 request_log, last, checks, handler_calls, queueVars, stageVars>>

(***************************************************************************)
(* APIGateway.route.  A handler is given by what calling it does: it       *)
(* returns a bare body, returns a tuple of len items (body, status, ...),  *)
(* or raises an exception of class exc with message text.  The classes     *)
(* are subclasses of Exception.                                             *)
(***************************************************************************)
OkBody == <<"ok", "true">>
TupleStatuses == {201}
ExceptionClasses == {"ValueError", "RuntimeError", "IndexError"}

Handlers ==
  { [NoHandler EXCEPT !.kind = "bare", !.body = OkBody] }
  \cup { [NoHandler EXCEPT !.kind = "tuple", !.len = 2, !.body = OkBody, !.status = st] :
           st \in TupleStatuses }
  \cup { [NoHandler EXCEPT !.kind = "tuple", !.len = 1, !.body = OkBody] }
  \cup { [NoHandler EXCEPT !.kind = "raise", !.exc = "ValueError", !.text = "faixa"],
         [NoHandler EXCEPT !.kind = "raise", !.exc = "RuntimeError", !.text = "db.json"] }

Routes == { <<"POST", "/atletas">> }

\* _check_auth: True with a credential header, True without.  has_key says
\* whether headers carry a truthy X-API-Key or Authorization
RequiresKey(has_key) == has_key

check_auth(has_key) == IF has_key THEN TRUE ELSE TRUE

\* the exception that lines 94-95 raise, if any: the handler's own, or the
\* IndexError of response[1] on a tuple with fewer than two items
Raised(h) ==
  IF h.kind = "raise" THEN [is |-> TRUE, exc |-> h.exc, text |-> h.text]
  ELSE IF h.kind = "tuple" /\ h.len < 2
       THEN [is |-> TRUE, exc |-> "IndexError", text |-> "tuple index out of range"]
  ELSE [is |-> FALSE, exc |-> "", text |-> ""]

\* except Exception as e
CatchesOnlyValueError(exc) == exc = "ValueError"

Catches(exc) == exc \in ExceptionClasses

\* status = response[1] if isinstance(response, tuple) else 200
StatusAlways200(h) == 200

StatusOf(h) == IF h.kind = "tuple" THEN h.status ELSE 200

RateLimitBody == <<"erro", "Rate limit excedido. Tente novamente mais tarde.">>
UnauthorizedBody == <<"erro", "Não autorizado. Forneça credenciais válidas.">>
ErrorBody(text) == <<"erro", "Erro interno do servidor: " \o text>>

\* _log_request: the entry appended to request_log
log_entry(method, path, client_ip, status) ==
  [timestamp |-> now, method |-> method, path |-> path,
   client_ip |-> client_ip, status |-> status]

\* route with an except branch that does not log
DispatchUnlogged(h) ==
  LET e == Raised(h) IN
  IF ~e.is
  THEN [status_code |-> StatusOf(h), body |-> h.body, logs |-> <<StatusOf(h)>>,
        raised |-> FALSE]
  ELSE [status_code |-> 500, body |-> ErrorBody(e.text), logs |-> << >>,
        raised |-> FALSE]

\* lines 91-103 of route: the handler call and the response made of its outcome.
\* logs is the list of statuses passed to _log_request, raised says whether an
\* exception leaves route
Dispatch(h) ==
  LET e == Raised(h) IN
  IF ~e.is
  THEN [status_code |-> StatusOf(h), body |-> h.body, logs |-> <<StatusOf(h)>>,
        raised |-> FALSE]
  ELSE IF Catches(e.exc)
  THEN [status_code |-> 500, body |-> ErrorBody(e.text), logs |-> <<500>>,
        raised |-> FALSE]
  ELSE [status_code |-> 0, body |-> <<"", "">>, logs |-> << >>, raised |-> TRUE]

\* lines 76-89 of route: the two gates in front of the handler
RejectedRunsHandler(admitted, has_key) ==
  IF ~check_auth(has_key) THEN "401" ELSE "handler"

Gate(admitted, has_key) ==
  IF ~admitted THEN "429"
  ELSE IF ~check_auth(has_key) THEN "401"
  ELSE "handler"

Route ==
  /\ Len(request_log) < MaxRequests
  /\ \E c \in Clients, rt \in Routes, h \in Handlers, has_key \in BOOLEAN :
       LET r == check_rate_limit(c)
           gate == Gate(r.admitted, has_key)
           d == IF gate = "429"
                THEN [status_code |-> 429, body |-> RateLimitBody, logs |-> <<429>>,
                      raised |-> FALSE]
                ELSE IF gate = "401"
                THEN [status_code |-> 401, body |-> UnauthorizedBody, logs |-> <<401>>,
                      raised |-> FALSE]
                ELSE Dispatch(h)
       IN
       /\ rate_limit' = SetStamps(c, r.stamps)
       /\ checks' = Append(checks, [client |-> c, at |-> now, admitted |-> r.admitted])
       /\ handler_calls' = handler_calls + (IF gate = "handler" THEN 1 ELSE 0)
       /\ request_log' = request_log \o
            [i \in 1..Len(d.logs) |-> log_entry(rt[1], rt[2], c, d.logs[i])]
       /\ last' = [NoCall EXCEPT !.op = "route", !.client = c, !.at = now,
                                 !.admitted = r.admitted, !.handler = h,
                                 !.method = rt[1], !.path = rt[2],
                                 !.status_code = d.status_code, !.body = d.body,
                                 !.invoked = IF gate = "handler" THEN 1 ELSE 0,
                                 !.raised = d.raised, !.before = rate_limit,
                                 !.logged = Len(request_log),
                                 !.has_key = has_key]
  /\ UNCHANGED <<now, ticks, rate_limit_window, max_requests_per_window, queueVars,
                 stageVars>>

(***************************************************************************)
(* Dicts, as lists of members: d.get(k), d[k] and truthiness of a value.   *)
(***************************************************************************)
HasKey(obj, k) == \E i \in 1..Len(obj) : obj[i][1] = k
Member(obj, k) == obj[CHOOSE i \in 1..Len(obj) : obj[i][1] = k]
\* d.get(k, default), with the default given as a member
GetOr(obj, k, default) == IF HasKey(obj, k) THEN Member(obj, k) ELSE default
IsList(m) == Len(m) = 3
\* bool(d.get(k)): a missing key, "" and [] are falsy
Truthy(obj, k) ==
  /\ HasKey(obj, k)
  /\ IF IsList(Member(obj, k)) THEN Member(obj, k)[3] # << >> ELSE Member(obj, k)[2] # ""

(***************************************************************************)
(* The notification log: MockAWS.__init__ creates it when it is missing,   *)
(* publish_sns appends one line to it.  A line is kept as the record of    *)
(* its three fields.  open("a") positions every write at the end of the    *)
(* file, so the append of one line is one step.                             *)
(***************************************************************************)
MaxPublish == 3      \* publish_sns calls in one run of the notification log

Topics == {"jiujitsu-lutas", "jiujitsu-resultados"}
Notices == {"Final - LUTA-1: Ana vs Bia. Dirijam-se ao tatame!",
            "Resultado da LUTA-1: Ana venceu por Pontos!"}

\* log_entry of publish_sns
sns_record(topic, message) == [timestamp |-> now, topic |-> topic, message |-> message]

\* handler.write(log_entry) on the file opened with "a"
AppendLine(f, line) == [exists |-> TRUE, data |-> Append(f.data, line)]

Published == SelectSeq(opLog, LAMBDA e : e.kind = "publish")

\* MockAWS.__init__, up to self.sns_log.exists()
Construct(p) ==
  /\ pc[p] = "new"
  /\ pc' = [pc EXCEPT ![p] = IF sns_log.exists THEN "idle" ELSE "init_write"]
  /\ UNCHANGED <<files, loc, role, preload, opLog, gwVars, stageVars>>

\* MockAWS.__init__: self.sns_log.write_text(""), which creates or empties the
\* file and writes nothing
InitWrite(p) ==
  /\ pc[p] = "init_write"
  /\ sns_log' = OpenForWrite(sns_log)
  /\ pc' = [pc EXCEPT ![p] = "idle"]
  /\ UNCHANGED <<files, loc, role, preload, opLog, gwVars, wk, stage, app>>

\* publish_sns(topic, message) by a process whose MockAWS is constructed
PublishSns(p) ==
  /\ pc[p] = "idle" /\ role[p] = "publisher"
  /\ Len(Published) < MaxPublish
  /\ \E topic \in Topics, message \in Notices :
       LET line == sns_record(topic, message) IN
       /\ sns_log' = AppendLine(sns_log, line)
       /\ opLog' = Append(opLog, [proc |-> p, kind |-> "publish", queue |-> topic,
                                  msg |-> line, res |-> "ok"])
  /\ UNCHANGED <<files, pc, loc, role, preload, gwVars, wk, stage, app>>

SnsStep == \E p \in Procs : Construct(p) \/ InitWrite(p) \/ PublishSns(p)

(***************************************************************************)
(* The stages.  A stage returns a result or raises; out.publishes is the   *)
(* list of (topic, message) it passed to publish_sns before that.          *)
(***************************************************************************)
MaxAthletes == 5     \* athletes in the event of lambda_matchmaker
MaxInvokes == 2      \* invoke_lambda calls in one run of the stages

AthleteNames == <<"Ana", "Bia", "Caio", "Davi", "Eva", "Fabio", "Gil", "Hugo">>
Athlete(i) == << <<"nome", AthleteNames[i]>> >>
Athletes(n) == [i \in 1..n |-> Athlete(i)]

Returns(result) == [raised |-> FALSE, exc |-> "", result |-> result, publishes |-> << >>]
Raises(exc) == [raised |-> TRUE, exc |-> exc, result |-> << >>, publishes |-> << >>]

\* " vs ".join(names)
RECURSIVE JoinVs(_)
JoinVs(names) ==
  IF names = << >> THEN ""
  ELSE IF Len(names) = 1 THEN names[1]
  ELSE names[1] \o " vs " \o JoinVs(Tail(names))

\* a.get("nome", "??") for a in atletas
NomeOf(a) == IF HasKey(a, "nome") THEN Member(a, "nome")[2] ELSE "??"

\* lambda_announcer(event): the event's atletas is a list of dicts, or is
\* missing; a string there is iterated by characters, and a character has no
\* get: AttributeError, unless the string is empty
lambda_announcer(event) ==
  LET luta_id == GetOr(event, "luta_id", <<"luta_id", "LUTA-DESCONHECIDA">>)[2]
      round_name == GetOr(event, "round", <<"round", "Rodada Única">>)[2]
      atletas == GetOr(event, "atletas", <<"atletas", "list", << >> >>)
  IN IF ~IsList(atletas) /\ atletas[2] # "" THEN Raises("AttributeError")
     ELSE IF IsList(atletas) /\ \E i \in 1..Len(atletas[3]) :
                                   /\ HasKey(atletas[3][i], "nome")
                                   /\ IsList(Member(atletas[3][i], "nome"))
          THEN Raises("TypeError")
     ELSE LET names == IF IsList(atletas)
                       THEN JoinVs([i \in 1..Len(atletas[3]) |-> NomeOf(atletas[3][i])])
                       ELSE ""
              atletas_nomes == IF names = "" THEN "Participantes indefinidos" ELSE names
              mensagem == round_name \o " - " \o luta_id \o ": " \o atletas_nomes
                          \o ". Dirijam-se ao tatame!"
          IN [Returns([status |-> "ANNOUNCED", mensagem |-> mensagem])
                EXCEPT !.publishes = << [topic |-> "jiujitsu-lutas", message |-> mensagem] >>]

\* embaralhados[idx : idx + 2]
Dupla(embaralhados, idx) ==
  SubSeq(embaralhados, idx + 1,
         IF idx + 2 <= Len(embaralhados) THEN idx + 2 ELSE Len(embaralhados))

\* len(dupla) == 2
AlwaysPair(dupla) == TRUE

IsPair(dupla) == Len(dupla) = 2

\* one turn of the loop of lines 91-110
Confronto(embaralhados, idx) ==
  LET dupla == Dupla(embaralhados, idx)
      luta_id == "LUTA-" \o ToString(idx \div 2 + 1)
  IN IF IsPair(dupla)
     THEN [luta_id |-> luta_id, atletas |-> dupla, round |-> "Classificatórias"]
     ELSE [luta_id |-> luta_id \o "-BYE", atletas |-> dupla, round |-> "Avanço Automático"]

\* for idx in range(0, len(embaralhados), 2)
RECURSIVE Confrontos(_, _, _)
Confrontos(embaralhados, idx, confrontos) ==
  IF idx >= Len(embaralhados) THEN confrontos
  ELSE Confrontos(embaralhados, idx + 2, Append(confrontos, Confronto(embaralhados, idx)))

\* the outcomes of random.shuffle on a list of n items: item i of the result
\* is item perm[i] of the list
Shuffles(n) == {perm \in [1..n -> 1..n] : \A i, j \in 1..n : perm[i] = perm[j] => i = j}

\* lambda_matchmaker(event), with the outcome perm of random.shuffle
lambda_matchmaker(event, perm) ==
  LET atletas == GetOr(event, "atletas", <<"atletas", "list", << >> >>)[3] IN
  IF Len(atletas) < 2 THEN Returns([confrontos |-> << >>])
  ELSE LET embaralhados == [i \in 1..Len(atletas) |-> atletas[perm[i]]] IN
       Returns([confrontos |-> Confrontos(embaralhados, 0, << >>), gerado_em |-> now])

StageNames == {"lambda_announcer", "lambda_matchmaker"}

\* handler(payload, context=context)
HandlerCall(handler, payload, context, perm) ==
  IF handler = "lambda_announcer" THEN lambda_announcer(payload)
  ELSE lambda_matchmaker(payload, perm)

\* invoke_lambda(name, handler, payload): calls is the list of the calls it
\* makes of the handler, each with the payload and the context it passes
invoke_with_retry(name, handler, payload, perm) ==
  LET context == [invoked_at |-> now]
      out == HandlerCall(handler, payload, context, perm)
      call == [payload |-> payload, context |-> context]
  IN [calls |-> IF out.raised THEN <<call, call>> ELSE <<call>>,
      raised |-> out.raised, exc |-> out.exc, result |-> out.result,
      publishes |-> out.publishes]

invoke_lambda(name, handler, payload, perm) ==
  LET context == [invoked_at |-> now]
      out == HandlerCall(handler, payload, context, perm)
  IN [calls |-> << [payload |-> payload, context |-> context] >>,
      raised |-> out.raised, exc |-> out.exc, result |-> out.result,
      publishes |-> out.publishes]

\* the lines that publish_sns appends for a list of (topic, message)
Lines(publishes) ==
  [i \in 1..Len(publishes) |-> sns_record(publishes[i].topic, publishes[i].message)]

Publish(publishes) ==
  IF publishes = << >> THEN sns_log
  ELSE [exists |-> TRUE, data |-> sns_log.data \o Lines(publishes)]

\* the messages that chamar_luta builds (src/app.py:120-125), and events
\* with a string or nothing where the list of athletes is expected
LutaMsg ==
  << <<"luta_id", "LUTA-7">>, <<"atletas", "list", Athletes(2)>>,
     <<"round", "Classificatórias">>, <<"tatame", "Principal">> >>
NamesMsg ==
  << <<"luta_id", "LUTA-9">>, <<"atletas", "Ana vs Bia">>,
     <<"round", "Classificatórias">>, <<"tatame", "Principal">> >>
AnnouncerEvents == {LutaMsg, NamesMsg, Msg1}

MatchmakerEvent(n) == << <<"atletas", "list", Athletes(n)>> >>

NoStage == [op |-> "none", n |-> 0, name |-> "", handler |-> "", payload |-> << >>,
            perm |-> << >>, at |-> 0, calls |-> << >>, raised |-> FALSE, exc |-> "",
            result |-> << >>, handler_out |-> Returns(<< >>), log_before |-> << >>]

\* the history of one invoke_lambda call
Invoked(name, handler, payload, perm) ==
  LET r == invoke_lambda(name, handler, payload, perm) IN
  [op |-> "invoke", n |-> stage.n + 1, name |-> name, handler |-> handler,
   payload |-> payload, perm |-> perm, at |-> now, calls |-> r.calls,
   raised |-> r.raised, exc |-> r.exc, result |-> r.result,
   handler_out |-> HandlerCall(handler, payload, [invoked_at |-> now], perm),
   log_before |-> sns_log.data]

\* the events the stages are invoked with, one call after the other
StageEvents(handler) ==
  IF handler = "lambda_announcer" THEN AnnouncerEvents
  ELSE {EmptyMsg, MatchmakerEvent(3)}

\* a call of invoke_lambda by a handler of the application
InvokeLambda ==
  /\ stage.n < MaxInvokes
  /\ \E handler \in StageNames :
       \E payload \in StageEvents(handler) :
         \E perm \in IF handler = "lambda_matchmaker" /\ payload # EmptyMsg
                     THEN Shuffles(Len(payload[1][3])) ELSE {<< >>} :
           LET r == invoke_lambda(handler, handler, payload, perm) IN
           /\ sns_log' = Publish(r.publishes)
           /\ stage' = Invoked(handler, handler, payload, perm)
  /\ UNCHANGED <<queueVars, gwVars, wk, app>>

\* gerar_chaves: mock_aws.invoke_lambda("Lambda 1 - Matchmaker",
\* lambda_matchmaker, event), once, for an event of any number of athletes
\* and any outcome of the shuffle
Matchmake ==
  /\ stage.op = "none"
  /\ \E payload \in {EmptyMsg} \cup {MatchmakerEvent(n) : n \in 0..MaxAthletes} :
       \E perm \in IF payload = EmptyMsg THEN {<< >>} ELSE Shuffles(Len(payload[1][3])) :
         stage' = Invoked("Lambda 1 - Matchmaker", "lambda_matchmaker", payload, perm)
  /\ UNCHANGED <<queueVars, gwVars, sns_log, wk, app>>

(***************************************************************************)
(* The worker: main's loop around process_next_message.  The worker is a   *)
(* process of its own; its receive_sqs runs through the steps above.       *)
(* wk.pc is "poll" at the top of the loop, "receive" inside receive_sqs,   *)
(* "invoke" before invoke_lambda, "sleep" inside time.sleep(POLL_INTERVAL) *)
(* and "stopped" once main has returned.                                    *)
(***************************************************************************)
MaxPolls == 4        \* process_next_message calls in one run of the worker

WorkerProc == 2
ProducerProc == 1

NoWorker == [pc |-> "off", msg |-> << >>, polls |-> 0, passed |-> << >>,
             caught |-> 0, failed_poll |-> 0, stopped_by |-> ""]

\* the exceptions receive_sqs and the announcer raise: JSONDecodeError is a
\* ValueError; all are subclasses of Exception
StageExceptions == {"JSONDecodeError", "AttributeError", "TypeError"}

\* except Exception as exc (worker.py:39)
WorkerCatchesNone(exc) == FALSE

WorkerCatches(exc) == exc \in StageExceptions

\* where main is after an exception left process_next_message: in the sleep
\* of the except branch, or out of the loop with the exception
AfterException(exc) ==
  IF WorkerCatches(exc)
  THEN [wk EXCEPT !.pc = "sleep", !.msg = << >>, !.caught = @ + 1, !.failed_poll = wk.polls]
  ELSE [wk EXCEPT !.pc = "stopped", !.msg = << >>, !.stopped_by = exc]

\* after the announcer failed for the message in hand: the message is dropped
RetriesMessage(w) == [w EXCEPT !.pc = "invoke", !.msg = wk.msg]

DropsMessage(w) == w

\* the last call of process p that ended
LastEnded(p) ==
  LET mine == {i \in 1..Len(opLog) : opLog[i].proc = p} IN
  opLog[CHOOSE i \in mine : \A j \in mine : j <= i]

\* process_next_message: mock_aws.receive_sqs(QUEUE_NAME), the call
WorkerPoll ==
  /\ wk.pc = "poll" /\ wk.polls < MaxPolls
  /\ pc[WorkerProc] = "idle"
  /\ loc' = [loc EXCEPT ![WorkerProc] = [Idle EXCEPT !.kind = "recv", !.queue = QUEUE_NAME]]
  /\ pc' = [pc EXCEPT ![WorkerProc] =
              IF files[QueuePath(QUEUE_NAME)].exists THEN "read" ELSE "create_open"]
  /\ wk' = [wk EXCEPT !.pc = "receive", !.polls = @ + 1]
  /\ UNCHANGED <<files, role, preload, opLog, gwVars, sns_log, stage, app>>

\* the steps of the worker's receive_sqs
WorkerReceive ==
  /\ wk.pc = "receive"
  /\ \/ CreateOpen(WorkerProc)
     \/ CreateWrite(WorkerProc)
     \/ ReadText(WorkerProc)
     \/ WriteOpen(WorkerProc)
     \/ WriteData(WorkerProc)

\* receive_sqs has ended: it raised, or returned None or a message; a falsy
\* message (None, {}) makes process_next_message return None, and main sleeps
WorkerReceived ==
  /\ wk.pc = "receive" /\ pc[WorkerProc] = "idle"
  /\ LET e == LastEnded(WorkerProc) IN
     wk' = IF e.res = "error" THEN AfterException("JSONDecodeError")
           ELSE IF e.res = "none" \/ e.msg = << >> THEN [wk EXCEPT !.pc = "sleep"]
           ELSE [wk EXCEPT !.pc = "invoke", !.msg = e.msg]
  /\ UNCHANGED <<queueVars, gwVars, sns_log, stage, app>>

\* mock_aws.invoke_lambda("Lambda 2 - Announcer", lambda_announcer, message)
\* and the return to main
WorkerInvoke ==
  /\ wk.pc = "invoke"
  /\ LET r == invoke_lambda("Lambda 2 - Announcer", "lambda_announcer", wk.msg, << >>)
         passed == wk.passed \o [i \in 1..Len(r.calls) |->
                                   [msg |-> r.calls[i].payload, poll |-> wk.polls,
                                    ok |-> ~r.raised]]
     IN /\ sns_log' = Publish(r.publishes)
        /\ stage' = Invoked("Lambda 2 - Announcer", "lambda_announcer", wk.msg, << >>)
        /\ wk' = IF r.raised
                 THEN DropsMessage([AfterException(r.exc) EXCEPT !.passed = passed])
                 ELSE [wk EXCEPT !.pc = "poll", !.msg = << >>, !.passed = passed]
  /\ UNCHANGED <<queueVars, gwVars, app>>

\* time.sleep(POLL_INTERVAL) returns; the loop goes round
WorkerWake ==
  /\ wk.pc = "sleep"
  /\ wk' = [wk EXCEPT !.pc = "poll"]
  /\ UNCHANGED <<queueVars, gwVars, sns_log, stage, app>>

\* CTRL+C, wherever main is: the call in progress is abandoned and main
\* returns (from the except KeyboardInterrupt branch, or out of the sleep of
\* the except Exception branch)
KeyboardInterrupt ==
  /\ wk.pc \in {"poll", "receive", "invoke", "sleep"}
  /\ wk' = [wk EXCEPT !.pc = "stopped", !.msg = << >>, !.stopped_by = "KeyboardInterrupt"]
  /\ pc' = [pc EXCEPT ![WorkerProc] = "idle"]
  /\ loc' = [loc EXCEPT ![WorkerProc] = Idle]
  /\ UNCHANGED <<files, role, preload, opLog, gwVars, sns_log, stage, app>>

WorkerStep ==
  \/ WorkerPoll
  \/ WorkerReceive
  \/ WorkerReceived
  \/ WorkerInvoke
  \/ WorkerWake

(***************************************************************************)
(* chamar_luta (src/app.py): the handler that puts a fight on the queue.   *)
(***************************************************************************)
MaxLutas == 2        \* chamar_luta requests in one run

LutaPayload == << <<"luta_id", "LUTA-7">>, <<"atletas", "list", Athletes(2)>> >>
NoAtletasPayload == << <<"luta_id", "LUTA-8">> >>
ChamarPayloads == {LutaPayload, NoAtletasPayload}

\* chamar_luta for a JSON payload: the status of the response and the
\* messages passed to send_sqs(QUEUE_NAME, ...)
chamar_luta(payload) ==
  LET missing == {field \in {"luta_id", "atletas"} : ~Truthy(payload, field)} IN
  IF missing # {} THEN [status |-> 400, sends |-> << >>]
  ELSE [status |-> 202,
        sends |-> << << Member(payload, "luta_id"), Member(payload, "atletas"),
                        GetOr(payload, "round", <<"round", "Classificatórias">>),
                        GetOr(payload, "tatame", <<"tatame", "Principal">>) >> >>]

LutasStarted ==
  Len(SelectSeq(opLog, LAMBDA e : e.proc = ProducerProc))
  + (IF pc[ProducerProc] = "idle" THEN 0 ELSE 1)

\* a request to /chamar-luta, up to _queue_file's file_path.exists()
ChamarLuta(p) ==
  /\ pc[p] = "idle" /\ role[p] = "chamar_luta"
  /\ LutasStarted < MaxLutas
  /\ \E payload \in ChamarPayloads :
       LET r == chamar_luta(payload) IN
       IF r.sends = << >>
       THEN /\ opLog' = Append(opLog, [proc |-> p, kind |-> "chamar_luta",
                                       queue |-> QUEUE_NAME, msg |-> payload,
                                       res |-> "400"])
            /\ UNCHANGED <<pc, loc>>
       ELSE /\ loc' = [loc EXCEPT ![p] = [Idle EXCEPT !.kind = "send",
                                                      !.queue = QUEUE_NAME,
                                                      !.msg = r.sends[1]]]
            /\ pc' = [pc EXCEPT ![p] =
                        IF files[QueuePath(QUEUE_NAME)].exists THEN "read" ELSE "create_open"]
            /\ UNCHANGED opLog
  /\ UNCHANGED <<files, role, preload, gwVars, stageVars>>

ProducerStep ==
  \/ ChamarLuta(ProducerProc)
  \/ CreateOpen(ProducerProc)
  \/ CreateWrite(ProducerProc)
  \/ ReadText(ProducerProc)
  \/ WriteOpen(ProducerProc)
  \/ WriteData(ProducerProc)

(***************************************************************************)
(* The Flask application: cadastrar_atleta and registrar_resultado, for a  *)
(* request whose body is a JSON object.  The application handles one       *)
(* request to its end before the next.  A table is the list of its         *)
(* documents in insertion order; registrado_em, the time of the call, is   *)
(* left out of the documents.  registrar_resultado is at app.pc            *)
(* "historian" before its invoke_lambda of lambda_historian and at         *)
(* "notifier" before its invoke_lambda of lambda_notifier.  An exception   *)
(* that leaves a handler ends the request with status 500.                 *)
(***************************************************************************)
MaxAppRequests == 2  \* /atletas and /resultado requests in one run

NoRequest == [handler |-> "none", payload |-> << >>, status |-> 0, stages |-> << >>,
              exc |-> "", before |-> << >>]

NoApp == [pc |-> "idle", n |-> 0, atletas |-> << >>, resultados |-> << >>,
          backup |-> Absent, sns_writable |-> TRUE, req |-> NoRequest]

Required ==
  [cadastrar_atleta |-> {"nome", "faixa", "categoria"},
   chamar_luta |-> {"luta_id", "atletas"},
   registrar_resultado |-> {"luta_id", "vencedor"}]

\* the fields that are absent only
MissingKeys(payload, required) == {field \in required : ~HasKey(payload, field)}

\* [field for field in required if not payload.get(field)]
Missing(payload, required) == {field \in required : ~Truthy(payload, field)}

\* len(nome.strip()) for the names of the model
StripLen(nome) == CASE nome = "Ana" -> 3 [] nome = " Al " -> 2 [] OTHER -> 0

\* lambda_validator: the number of entries of erros
lambda_validator(atleta) ==
  LET erros ==
        (IF StripLen(GetOr(atleta, "nome", <<"nome", "">>)[2]) < 3 THEN 1 ELSE 0)
        + (IF GetOr(atleta, "faixa", <<"faixa", "">>)[2]
                \notin {"Branca", "Azul", "Roxa", "Marrom", "Preta"} THEN 1 ELSE 0)
        + (IF GetOr(atleta, "categoria", <<"categoria", "">>)[2]
                \notin {"Peso Leve", "Peso Médio", "Peso Pesado", "Absoluto"}
           THEN 1 ELSE 0)
  IN [valido |-> erros = 0, erros |-> erros]

\* cadastrar_atleta: the status of the response, the stages invoked and the
\* table afterwards
cadastrar_atleta(payload) ==
  LET atleta_data == << Member(payload, "nome"), Member(payload, "faixa"),
                        Member(payload, "categoria"),
                        GetOr(payload, "equipe", <<"equipe", "Independente">>) >>
      atleta_id == Len(app.atletas) + 1
  IN IF Missing(payload, Required.cadastrar_atleta) # {}
     THEN [status |-> 400, stages |-> << >>, atletas |-> app.atletas]
     ELSE IF ~lambda_validator(atleta_data).valido
     THEN [status |-> 400, stages |-> <<"Lambda Validator">>, atletas |-> app.atletas]
     ELSE [status |-> 201, stages |-> <<"Lambda Validator">>,
           atletas |-> Append(app.atletas, Append(atleta_data, <<"id", atleta_id>>))]

\* the state a request finds
Before ==
  [atletas |-> app.atletas, resultados |-> app.resultados, backup |-> app.backup,
   sns_log |-> sns_log, files |-> files]

AppIdle == app.pc = "idle" /\ pc[ProducerProc] = "idle"

AtletaPayloads ==
  { << <<"nome", "Ana">>, <<"faixa", "Azul">>, <<"categoria", "Peso Leve">> >>,
    << <<"nome", " Al ">>, <<"faixa", "Azul">>, <<"categoria", "Peso Leve">> >>,
    << <<"nome", "">>, <<"faixa", "Azul">>, <<"categoria", "Peso Leve">> >>,
    << <<"nome", "Ana">>, <<"categoria", "Peso Leve">> >> }

CadastrarAtleta ==
  /\ AppIdle
  /\ app.n < MaxAppRequests
  /\ \E payload \in AtletaPayloads :
       LET r == cadastrar_atleta(payload) IN
       app' = [app EXCEPT !.n = @ + 1, !.atletas = r.atletas,
                          !.req = [NoRequest EXCEPT !.handler = "cadastrar_atleta",
                                                    !.payload = payload,
                                                    !.status = r.status,
                                                    !.stages = r.stages,
                                                    !.before = Before]]
  /\ UNCHANGED <<queueVars, gwVars, sns_log, wk, stage>>

\* the stage registrar_resultado calls after storing the result, after the
\* notifier and after the historian
NotifierFirst(at) ==
  CASE at = "store" -> "notifier" [] at = "notifier" -> "historian" [] OTHER -> "done"

\* the order of registrar_resultado: store, historian, notifier
StageAfter(at) ==
  CASE at = "store" -> "historian" [] at = "historian" -> "notifier" [] OTHER -> "done"

\* the application once the step at `at` of registrar_resultado has returned
Advance(a, at) ==
  IF StageAfter(at) = "done"
  THEN [a EXCEPT !.pc = "idle", !.req.status = 201]
  ELSE [a EXCEPT !.pc = StageAfter(at)]

\* the application once an exception has left the handler
Failed(a, exc) == [a EXCEPT !.pc = "idle", !.req.status = 500, !.req.exc = exc]

ResultadoPayloads ==
  { << <<"luta_id", "LUTA-7">>, <<"vencedor", "Ana">> >>,
    << <<"luta_id", "LUTA-8">>, <<"vencedor", "Bia">>, <<"metodo", "Finalização">> >>,
    << <<"luta_id", "LUTA-7">>, <<"vencedor", "">> >>,
    << <<"vencedor", "Ana">> >> }

\* registrar_resultado, up to the first invoke_lambda
RegistrarResultado ==
  /\ AppIdle
  /\ app.n < MaxAppRequests
  /\ \E payload \in ResultadoPayloads :
       LET req == [NoRequest EXCEPT !.handler = "registrar_resultado",
                                    !.payload = payload, !.before = Before]
           registro == << Member(payload, "luta_id"), Member(payload, "vencedor"),
                          GetOr(payload, "metodo", <<"metodo", "Pontos">>),
                          GetOr(payload, "tempo", <<"tempo", "00:00">>),
                          <<"id", Len(app.resultados) + 1>> >>
       IN IF Missing(payload, Required.registrar_resultado) # {}
          THEN app' = [app EXCEPT !.n = @ + 1, !.req = [req EXCEPT !.status = 400]]
          ELSE app' = Advance([app EXCEPT !.n = @ + 1, !.req = req,
                                          !.resultados = Append(@, registro)],
                              "store")
  /\ UNCHANGED <<queueVars, gwVars, sns_log, wk, stage>>

\* the result the request at hand has stored
Registro == app.resultados[Len(app.resultados)]

\* lambda_historian: the backup file afterwards, and whether it raised.  extra,
\* the dict of the one member tempo, is kept as that member's text
lambda_historian(event, backup_file) ==
  LET file == IF backup_file.exists THEN backup_file ELSE FileOf(EmptyArrayText)
      log_entry_ == << <<"luta_id", GetOr(event, "luta_id", <<"luta_id", "">>)[2]>>,
                      <<"vencedor", GetOr(event, "vencedor", <<"vencedor", "">>)[2]>>,
                      <<"submitido_por",
                        GetOr(event, "submitido_por", <<"submitido_por", "N/A">>)[2]>>,
                      <<"extra", GetOr(event, "extra", <<"extra", "">>)[2]>> >>
      dados == json_loads(file.data)
  IN IF ~dados.ok
     THEN [raised |-> TRUE, exc |-> "JSONDecodeError", backup |-> file]
     ELSE [raised |-> FALSE, exc |-> "",
           backup |-> FileOf(json_dumps(Append(dados.val, log_entry_)))]

\* lines 155-161 of registrar_resultado
HistorianStage ==
  /\ app.pc = "historian"
  /\ LET backup_payload == << <<"luta_id", Member(Registro, "luta_id")[2]>>,
                              <<"vencedor", Member(Registro, "vencedor")[2]>>,
                              <<"submitido_por", Member(Registro, "metodo")[2]>>,
                              <<"extra", Member(Registro, "tempo")[2]>> >>
         r == lambda_historian(backup_payload, app.backup)
         called == [app EXCEPT !.backup = r.backup,
                               !.req.stages = Append(@, "Lambda 3 - Historian")]
     IN app' = IF r.raised THEN Failed(called, r.exc) ELSE Advance(called, "historian")
  /\ UNCHANGED <<queueVars, gwVars, sns_log, wk, stage>>

\* lambda_notifier: the message it publishes, for a winner given as a string
lambda_notifier(event) ==
  "Resultado da " \o GetOr(event, "luta_id", <<"luta_id", "LUTA-DESCONHECIDA">>)[2]
    \o ": " \o GetOr(event, "vencedor", <<"vencedor", "">>)[2]
    \o " venceu por " \o GetOr(event, "metodo", <<"metodo", "Pontos">>)[2] \o "!"

\* lines 163-169 of registrar_resultado.  publish_sns opens the log with
\* open(..., "a"), which raises when the file cannot be opened for writing
NotifierStage ==
  /\ app.pc = "notifier"
  /\ LET notify_payload == << Member(Registro, "luta_id"), Member(Registro, "vencedor"),
                              Member(Registro, "metodo") >>
         called == [app EXCEPT !.req.stages = Append(@, "Lambda Notifier")]
     IN IF app.sns_writable
        THEN /\ sns_log' = AppendLine(sns_log, sns_record("jiujitsu-resultados",
                                                          lambda_notifier(notify_payload)))
             /\ app' = Advance(called, "notifier")
        ELSE /\ app' = Failed(called, "PermissionError")
             /\ UNCHANGED sns_log
  /\ UNCHANGED <<queueVars, gwVars, wk, stage>>

AppStep ==
  \/ CadastrarAtleta
  \/ RegistrarResultado
  \/ HistorianStage
  \/ NotifierStage
  \/ app.pc = "idle" /\ ProducerStep

(***************************************************************************)
(* APIGateway.get_stats.                                                   *)
(***************************************************************************)
MaxStatRequests == 3 \* route calls in one run of get_stats

\* req.get("timestamp"): _log_request stores datetime.utcnow().isoformat() + "Z",
\* a string that is never empty
HasTimestamp(req) == "timestamp" \in DOMAIN req

get_stats ==
  [total_requests |-> Len(request_log),
   requests_last_hour |-> Len(SelectSeq(request_log, HasTimestamp)),
   status_counts |->
     [s \in {request_log[i].status : i \in 1..Len(request_log)} |->
        Cardinality({i \in 1..Len(request_log) : request_log[i].status = s})],
   active_clients |-> Cardinality(DOMAIN rate_limit)]

\* what a get_stats call leaves in the gateway object
StatsLogsItself ==
  [request_log |-> Append(request_log, log_entry("GET", "/stats", "127.0.0.1", 200)),
   rate_limit |-> rate_limit]

StatsLeaves == [request_log |-> request_log, rate_limit |-> rate_limit]

GetStats ==
  /\ request_log' = StatsLeaves.request_log
  /\ rate_limit' = StatsLeaves.rate_limit
  /\ last' = [NoCall EXCEPT !.op = "stats", !.at = now, !.before = rate_limit,
                            !.logged = Len(request_log), !.log_before = request_log,
                            !.stats = <<get_stats>>,
                            !.prev_stats = IF last.op = "stats" THEN last.stats ELSE << >>]
  /\ UNCHANGED <<now, ticks, rate_limit_window, max_requests_per_window, checks,
                 handler_calls, queueVars, stageVars>>

GatewayAtRest ==
  /\ now = 0
  /\ ticks = 0
  /\ rate_limit_window = 60
  /\ max_requests_per_window = 100
  /\ rate_limit = NoStamps
  /\ request_log = << >>
  /\ last = NoCall
  /\ checks = << >>
  /\ handler_calls = 0

\* the gateway after __init__, under one of the settings
GatewayAtStart(settings) ==
  /\ now = 0
  /\ ticks = 0
  /\ \E s \in settings :
       /\ rate_limit_window = s.window
       /\ max_requests_per_window = s.ceiling
  /\ rate_limit = NoStamps
  /\ request_log = << >>
  /\ last = NoCall
  /\ checks = << >>
  /\ handler_calls = 0

\* the notification log exists and is empty, no worker runs, no stage has run
StagesAtRest ==
  /\ sns_log = FileOf(<< >>)
  /\ wk = NoWorker
  /\ stage = NoStage
  /\ app = NoApp

QueuesAtStart ==
  /\ pc = [p \in Procs |-> "idle"]
  /\ loc = [p \in Procs |-> Idle]
  /\ opLog = << >>

\* one process, so no concurrent access; every queue starts empty, with no
\* file yet (a receive_sqs on it leaves the file "[]")
InitSeq ==
  /\ QueuesAtStart
  /\ role = [p \in Procs |-> IF p = 1 THEN "any" ELSE "off"]
  /\ preload = [q \in QueueNames |-> << >>]
  /\ files = [q \in QueueNames |-> Absent]
  /\ GatewayAtRest
  /\ StagesAtRest

\* producers and consumers side by side; a queue may hold messages sent earlier
Preloads == {<< >>, <<Msg1, Msg2>>}

InitConc ==
  /\ QueuesAtStart
  /\ role \in [Procs -> {"producer", "consumer"}]
  /\ preload \in [QueueNames -> Preloads]
  /\ files = [q \in QueueNames |->
                IF preload[q] = << >> THEN Absent ELSE FileOf(json_dumps(preload[q]))]
  /\ GatewayAtRest
  /\ StagesAtRest

\* no process uses the queues
QueuesAtRest ==
  /\ QueuesAtStart
  /\ role = [p \in Procs |-> "off"]
  /\ preload = [q \in QueueNames |-> << >>]
  /\ files = [q \in QueueNames |-> Absent]

InitRate == GatewayAtStart(Settings) /\ QueuesAtRest /\ StagesAtRest
InitGateway == GatewayAtStart(RouteSettings) /\ QueuesAtRest /\ StagesAtRest

NextRate == CheckRateLimit \/ Tick(MaxTicks)
NextGateway == Route \/ Tick(MaxRouteTicks)

SpecSeq == InitSeq /\ [][QueueStep]_vars
SpecConc == InitConc /\ [][QueueStep]_vars
SpecRate == InitRate /\ [][NextRate]_vars
SpecGateway == InitGateway /\ [][NextGateway]_vars

\* direct calls of _check_rate_limit, route calls and the clock, in any order;
\* the handler passed to route returns a body, and no credential is sent
MaxClientCalls == 3  \* rate-limit checks, direct or through route, in one run

NextPerClient ==
  \/ Len(checks) < MaxClientCalls /\ CheckRateLimit
  \/ Len(checks) < MaxClientCalls /\ Route /\ last'.handler.kind = "bare" /\ ~last'.has_key
  \/ Tick(MaxTicks)

SpecPerClient == InitGateway /\ [][NextPerClient]_vars

\* route calls, get_stats calls and the clock, in any order
StatsSettings == { [window |-> 2, ceiling |-> 1], [window |-> 2, ceiling |-> 0] }

InitStats == GatewayAtStart(StatsSettings) /\ QueuesAtRest /\ StagesAtRest

NextStats ==
  \/ Len(request_log) < MaxStatRequests /\ Route
  \/ GetStats
  \/ Tick(MaxRouteTicks)

SpecStats == InitStats /\ [][NextStats]_vars

(***************************************************************************)
(* lambda_statistics.  A result is kept as its "vencedor": a dict with a   *)
(* "nome", a plain string, or nothing (the default {} of resultado.get).   *)
(* nome "" stands for a name that is missing or empty, which `if nome`     *)
(* skips.  vitorias is a dict, kept as the list of its items in insertion  *)
(* order.                                                                  *)
(***************************************************************************)
MaxResults == 4      \* results in one statistics event

WinnerNames == {"A", "B", "C"}

Vencedores ==
  {[kind |-> "dict", nome |-> n] : n \in WinnerNames \cup {""}}
    \cup {[kind |-> "str", nome |-> n] : n \in {"A", ""}}
    \cup {[kind |-> "missing", nome |-> ""]}

ResultLists == UNION {[1..n -> Vencedores] : n \in 0..MaxResults}

\* vencedor.get("nome") if isinstance(vencedor, dict) else str(vencedor)
WinnerName(vencedor) == vencedor.nome

\* vitorias[nome] = vitorias.get(nome, 0) + 1
Tally(vitorias, nome) ==
  IF \E i \in 1..Len(vitorias) : vitorias[i][1] = nome
  THEN [i \in 1..Len(vitorias) |->
          IF vitorias[i][1] = nome THEN <<nome, vitorias[i][2] + 1>> ELSE vitorias[i]]
  ELSE Append(vitorias, <<nome, 1>>)

\* the loop of lines 196-200
RECURSIVE Vitorias(_, _)
Vitorias(vitorias, resultados) ==
  IF resultados = << >> THEN vitorias
  ELSE LET nome == WinnerName(Head(resultados)) IN
       Vitorias(IF nome # "" THEN Tally(vitorias, nome) ELSE vitorias, Tail(resultados))

\* x put in front of the items it ties with
InsertedFirst(list, x) ==
  LET k == Cardinality({i \in 1..Len(list) : list[i][2] > x[2]}) IN
  SubSeq(list, 1, k) \o <<x>> \o SubSeq(list, k + 1, Len(list))

\* x put into a list in non-increasing order of count, behind the items it
\* ties with: sorted is stable, with reverse=True too
Inserted(list, x) ==
  LET k == Cardinality({i \in 1..Len(list) : list[i][2] >= x[2]}) IN
  SubSeq(list, 1, k) \o <<x>> \o SubSeq(list, k + 1, Len(list))

\* sorted(vitorias.items(), key=lambda x: x[1], reverse=True)
RECURSIVE SortedByWins(_, _)
SortedByWins(done, items) ==
  IF items = << >> THEN done
  ELSE SortedByWins(Inserted(done, Head(items)), Tail(items))

lambda_statistics(resultados, n_atletas) ==
  LET vitorias == Vitorias(<< >>, resultados)
      ranking == SortedByWins(<< >>, vitorias)
  IN [total_lutas |-> Len(resultados),
      atletas_com_vitorias |-> Cardinality({vitorias[i][1] : i \in 1..Len(vitorias)}),
      total_atletas |-> n_atletas,
      ranking |-> [k \in 1..Len(ranking) |->
                     [atleta |-> ranking[k][1], vitorias |-> ranking[k][2]]]]

\* lambda_statistics applied once to an event
Statistics ==
  /\ stage.op = "none"
  /\ \E resultados \in ResultLists, n_atletas \in 0..1 :
       stage' = [NoStage EXCEPT !.op = "statistics", !.handler = "lambda_statistics",
                                !.n = n_atletas, !.payload = resultados,
                                !.result = lambda_statistics(resultados, n_atletas)]
  /\ UNCHANGED <<queueVars, gwVars, sns_log, wk, app>>

\* the stages, called through invoke_lambda one call after the other
InitStages == QueuesAtRest /\ GatewayAtRest /\ StagesAtRest
NextStages == InvokeLambda \/ Tick(MaxRouteTicks)
SpecStages == InitStages /\ [][NextStages]_vars

\* lambda_matchmaker, applied once to each event and each outcome of the shuffle
SpecMatchmaker == InitStages /\ [][Matchmake]_vars

\* lambda_statistics, applied once to each list of results
SpecStatistics == InitStages /\ [][Statistics]_vars

\* processes that start on a state directory with no notification log yet:
\* each constructs its MockAWS (mock_aws = MockAWS() at import) and publishes
InitSns ==
  /\ pc = [p \in Procs |-> "new"]
  /\ loc = [p \in Procs |-> Idle]
  /\ opLog = << >>
  /\ role = [p \in Procs |-> "publisher"]
  /\ preload = [q \in QueueNames |-> << >>]
  /\ files = [q \in QueueNames |-> Absent]
  /\ GatewayAtRest
  /\ sns_log = Absent
  /\ wk = NoWorker
  /\ stage = NoStage
  /\ app = NoApp

SpecSns == InitSns /\ [][SnsStep]_vars

\* a queue file whose last write was cut short: the text of the list without
\* its closing bracket
Corrupted(list) == SubSeq(json_dumps(list), 1, Len(json_dumps(list)) - 1)

\* the worker alone on the queue, which holds messages sent earlier: with a
\* string where the athletes are expected, as chamar_luta builds them, the
\* dict {}, and one without athletes; or whose file is damaged
WorkerPreloads == {<< >>, <<NamesMsg, LutaMsg>>, <<LutaMsg, EmptyMsg, Msg1>>}

WorkerAtStart ==
  /\ QueuesAtStart
  /\ GatewayAtRest
  /\ sns_log = FileOf(<< >>)
  /\ wk = [NoWorker EXCEPT !.pc = "poll"]
  /\ stage = NoStage
  /\ app = NoApp

InitWorker ==
  /\ WorkerAtStart
  /\ role = [p \in Procs |-> IF p = WorkerProc THEN "worker" ELSE "off"]
  /\ \E pre \in WorkerPreloads, damaged \in BOOLEAN :
       /\ preload = [q \in QueueNames |-> IF q = QUEUE_NAME THEN pre ELSE << >>]
       /\ files = [q \in QueueNames |->
                     IF q # QUEUE_NAME THEN Absent
                     ELSE IF damaged THEN FileOf(Corrupted(pre))
                     ELSE IF pre = << >> THEN Absent
                     ELSE FileOf(json_dumps(pre))]

NextWorker == WorkerStep \/ KeyboardInterrupt

\* time.sleep(POLL_INTERVAL) returns: a worker that sleeps wakes up
SpecWorker == InitWorker /\ [][NextWorker]_vars /\ WF_vars(WorkerWake)

\* the application, handling /chamar-luta requests, and the worker, side by
\* side on an empty queue
InitPipeline ==
  /\ WorkerAtStart
  /\ role = [p \in Procs |-> IF p = WorkerProc THEN "worker"
                             ELSE IF p = ProducerProc THEN "chamar_luta" ELSE "off"]
  /\ preload = [q \in QueueNames |-> << >>]
  /\ files = [q \in QueueNames |-> Absent]

NextPipeline == ProducerStep \/ WorkerStep

SpecPipeline ==
  InitPipeline /\ [][NextPipeline]_vars /\ WF_vars(ProducerStep) /\ WF_vars(WorkerStep)

\* the application alone, on a state directory whose backup file is missing,
\* holds one entry or is damaged, and whose notification log may be read-only
BackupEntry == << <<"luta_id", "LUTA-1">>, <<"vencedor", "Caio">>,
                  <<"submitido_por", "Pontos">>, <<"extra", "00:00">> >>

InitApp ==
  /\ QueuesAtStart
  /\ role = [p \in Procs |-> IF p = ProducerProc THEN "chamar_luta" ELSE "off"]
  /\ preload = [q \in QueueNames |-> << >>]
  /\ files = [q \in QueueNames |-> Absent]
  /\ GatewayAtRest
  /\ sns_log = FileOf(<< >>)
  /\ wk = NoWorker
  /\ stage = NoStage
  /\ \E backup \in {Absent, FileOf(json_dumps(<<BackupEntry>>)),
                     FileOf(Corrupted(<<BackupEntry>>))},
        writable \in BOOLEAN :
       app = [NoApp EXCEPT !.backup = backup, !.sns_writable = writable]

SpecApp == InitApp /\ [][AppStep]_vars

\* one process, on queue files of which any may be missing, hold a message
\* sent earlier, or be damaged
QueueFilesAtStart ==
  {Absent, FileOf(json_dumps(<<Msg2>>)), FileOf(Corrupted(<<Msg2>>))}

InitDamaged ==
  /\ QueuesAtStart
  /\ role = [p \in Procs |-> IF p = 1 THEN "caller" ELSE "off"]
  /\ files \in [QueueNames -> QueueFilesAtStart]
  /\ preload = [q \in QueueNames |->
                  IF files[q] = FileOf(json_dumps(<<Msg2>>)) THEN <<Msg2>> ELSE << >>]
  /\ GatewayAtRest
  /\ StagesAtRest

SpecDamaged == InitDamaged /\ [][QueueStep]_vars

(***************************************************************************)
(* Queue claims.                                                           *)
(***************************************************************************)
RECURSIVE Count(_, _)
Count(list, m) ==
  IF list = << >> THEN 0
  ELSE (IF Head(list) = m THEN 1 ELSE 0) + Count(Tail(list), m)

\* the messages a first-in first-out queue q holds after the calls of log
RECURSIVE FifoAfter(_, _)
FifoAfter(log, q) ==
  IF log = << >> THEN << >>
  ELSE LET e == log[Len(log)]
           before == FifoAfter(SubSeq(log, 1, Len(log) - 1), q)
       IN IF e.queue # q THEN before
          ELSE IF e.kind = "send" THEN Append(before, e.msg)
          ELSE IF before = << >> THEN before
          ELSE Tail(before)

AllIdle == \A p \in Procs : pc[p] = "idle"
AllOk == \A i \in 1..Len(opLog) : opLog[i].res # "error"
SentTo(q) == SelectSeq(opLog, LAMBDA e : e.queue = q /\ e.kind = "send" /\ e.res = "ok")
Returned(q) == SelectSeq(opLog, LAMBDA e : e.queue = q /\ e.kind = "recv" /\ e.res = "ok")
MsgsOf(log) == [i \in 1..Len(log) |-> log[i].msg]
\* what the queue file holds; a queue with no file yet holds nothing
Stored(q) ==
  IF files[q].exists THEN json_loads(files[q].data)
  ELSE [ok |-> TRUE, val |-> << >>, next |-> 0]

\* C1: with one process and queues that start empty, no call fails, and every
\* receive_sqs returns the oldest message sent to its queue and not yet
\* received, with every key and value as sent, or None when there is none.
\* N sends followed by N+1 receives therefore return m1..mN and then None.
C1_FifoRoundTrip ==
  \A i \in 1..Len(opLog) :
    LET e == opLog[i]
        before == FifoAfter(SubSeq(opLog, 1, i - 1), e.queue)
    IN /\ e.res # "error"
       /\ e.kind = "recv" =>
            IF before = << >> THEN e.res = "none"
            ELSE e.res = "ok" /\ e.msg = Head(before)

\* two sends, then three receives on the same queue: m1, the dict {}, None
C1_Witness ==
  /\ Len(opLog) = 5
  /\ \A i \in 1..5 : opLog[i].queue = QUEUE_NAME
  /\ opLog[1].kind = "send" /\ opLog[1].msg = Msg1
  /\ opLog[2].kind = "send" /\ opLog[2].msg = EmptyMsg
  /\ opLog[3].kind = "recv" /\ opLog[3].res = "ok" /\ opLog[3].msg = Msg1
  /\ opLog[4].kind = "recv" /\ opLog[4].res = "ok" /\ opLog[4].msg = EmptyMsg
  /\ opLog[5].kind = "recv" /\ opLog[5].res = "none"

\* C2: when only producers run and every send has returned, each queue file
\* holds the messages it started with and every message sent to it, each
\* exactly as many times as it was sent.
C2_NoSendLost ==
  ( /\ \A p \in Procs : role[p] = "producer"
    /\ AllIdle /\ AllOk )
  => \A q \in QueueNames :
       /\ Stored(q).ok
       /\ \A m \in StoredMsgs :
            Count(Stored(q).val, m) = Count(preload[q], m) + Count(MsgsOf(SentTo(q)), m)

\* C3: when only consumers run on a queue holding M messages, no message is
\* returned more often than the queue held it, and once the queue is empty
\* the returned messages are exactly the M messages.
C3_NoDuplicateReceive ==
  (\A p \in Procs : role[p] = "consumer")
  => \A q \in QueueNames, m \in StoredMsgs :
       /\ Count(MsgsOf(Returned(q)), m) <= Count(preload[q], m)
       /\ (AllIdle /\ Stored(q).ok /\ Stored(q).val = << >>)
            => Count(MsgsOf(Returned(q)), m) = Count(preload[q], m)

\* C4: with one producer and one consumer, every message that was in the
\* queue or was sent to it is returned at most once, and when no call is
\* running it is either in the queue file or has been returned.
C4_SendReceiveAtomic ==
  ( /\ \E p \in Procs : role[p] = "producer"
    /\ \E p \in Procs : role[p] = "consumer" )
  => \A q \in QueueNames, m \in StoredMsgs :
       LET given == Count(preload[q], m) + Count(MsgsOf(SentTo(q)), m)
           taken == Count(MsgsOf(Returned(q)), m)
       IN /\ (AllOk /\ \A p \in Procs : pc[p] \notin {"write_open", "write_data"})
               => taken <= given
          /\ (AllIdle /\ AllOk) =>
               /\ Stored(q).ok
               /\ Count(Stored(q).val, m) + taken = given

(***************************************************************************)
(* Rate limiter claims.                                                    *)
(***************************************************************************)
StampsBefore(c) == IF c \in DOMAIN last.before THEN last.before[c] ELSE << >>

\* C5: a call of _check_rate_limit at time now drops from the client's list
\* every timestamp ts with now - ts >= rate_limit_window, keeps the others in
\* order, returns True and appends now iff fewer than
\* max_requests_per_window are left, and otherwise returns False and appends
\* nothing; the first call for a new client returns True.
C5_CheckRateLimit ==
  last.op = "check" =>
    LET c == last.client
        old == StampsBefore(c)
        kept == SelectSeq(old, LAMBDA ts : ~(last.at - ts >= rate_limit_window))
    IN /\ c \in DOMAIN rate_limit
       /\ last.admitted <=> Len(kept) < max_requests_per_window
       /\ rate_limit[c] = IF last.admitted THEN Append(kept, last.at) ELSE kept
       /\ c \notin DOMAIN last.before => last.admitted

\* an admitted call that dropped a timestamp and kept another, in a run where
\* an earlier call was rejected
C5_Witness ==
  /\ last.op = "check" /\ last.admitted
  /\ Len(rate_limit[last.client]) >= 2
  /\ Len(rate_limit[last.client]) <= Len(StampsBefore(last.client))
  /\ \E i \in 1..Len(checks) : ~checks[i].admitted

\* the admitted calls of client c, among the first n calls, at a time in [lo, hi)
AdmittedIn(c, n, lo, hi) ==
  {j \in 1..n : /\ checks[j].client = c
                /\ checks[j].admitted
                /\ lo <= checks[j].at /\ checks[j].at < hi}

\* C6: with C = max_requests_per_window and W = rate_limit_window, no window
\* of W seconds [t, t + W) holds more than C admitted calls of one client, and
\* a call at time t is rejected exactly when C admitted calls of that client
\* lie in the W seconds before it, (t - W, t].
C6_SlidingWindow ==
  \A i \in 1..Len(checks) :
    LET e == checks[i]
        recent == AdmittedIn(e.client, i - 1, e.at - rate_limit_window + 1, e.at + 1)
    IN /\ e.admitted <=> Cardinality(recent) < max_requests_per_window
       /\ ~e.admitted => Cardinality(recent) = max_requests_per_window
       /\ Cardinality(AdmittedIn(e.client, Len(checks), e.at, e.at + rate_limit_window))
            <= max_requests_per_window

\* C = 3, W = 60: three calls admitted at t = 0, a call at t = 1 rejected, a
\* call at t = 61 admitted
C6_Witness ==
  /\ rate_limit_window = 60 /\ max_requests_per_window = 3
  /\ Len(checks) = 5
  /\ \A i \in 1..5 : checks[i].client = checks[1].client
  /\ \A i \in 1..3 : checks[i].at = 0 /\ checks[i].admitted
  /\ checks[4].at = 1 /\ ~checks[4].admitted
  /\ checks[5].at = 61 /\ checks[5].admitted

\* C7 as claimed: at every instant every stored timestamp is younger than the
\* window.
C7_AllStampsInWindow ==
  \A c \in DOMAIN rate_limit :
    \A i \in 1..Len(rate_limit[c]) : now - rate_limit[c][i] < rate_limit_window

\* the time of the last _check_rate_limit call for client c, -1 if there is none
LastCheckAt(c) ==
  LET mine == {j \in 1..Len(checks) : checks[j].client = c} IN
  IF mine = {} THEN -1
  ELSE checks[CHOOSE j \in mine : \A k \in mine : k <= j].at

\* C7 as amended: every timestamp stored for a client is younger than the
\* window at the time of that client's last check: a client has a list only
\* once it was checked, and t - ts < rate_limit_window for every stored ts,
\* where t is the time of the client's last check.
C7_StampsInWindowAtLastCheck ==
  \A c \in DOMAIN rate_limit :
    /\ LastCheckAt(c) >= 0
    /\ \A i \in 1..Len(rate_limit[c]) :
         /\ rate_limit[c][i] <= LastCheckAt(c)
         /\ LastCheckAt(c) - rate_limit[c][i] < rate_limit_window

\* a timestamp older than the window is still stored for one client after
\* another client was checked
C7_Witness ==
  \E c \in DOMAIN rate_limit :
    /\ \E i \in 1..Len(rate_limit[c]) : now - rate_limit[c][i] >= rate_limit_window
    /\ last.op = "check" /\ last.client # c /\ last.at = now
    /\ \E j \in 1..Len(checks) :
         checks[j].client = c /\ checks[j].at > 0

(***************************************************************************)
(* Gateway claims.                                                         *)
(***************************************************************************)
\* the call appended exactly one entry to the request log, with this status
LoggedOnce(status) ==
  /\ Len(request_log) = last.logged + 1
  /\ request_log[Len(request_log)] =
       [timestamp |-> last.at, method |-> last.method, path |-> last.path,
        client_ip |-> last.client, status |-> status]

\* C8: when the rate limit admits a route call and the handler raises, no
\* exception leaves route, the response has status_code 500 and an error
\* body, and the request log gains one entry with status 500 for the request.
C8_HandlerFailureIs500 ==
  (last.op = "route" /\ last.admitted /\ last.handler.kind = "raise") =>
    /\ ~last.raised
    /\ last.status_code = 500
    /\ last.body[1] = "erro"
    /\ last.invoked = 1
    /\ LoggedOnce(500)

C8_Witness ==
  /\ last.op = "route" /\ last.admitted
  /\ last.handler.kind = "raise" /\ last.handler.exc = "RuntimeError"
  /\ last.status_code = 500
  /\ last.logged = 1

\* C9: when the rate limit rejects a route call, the handler is not called,
\* the response has status_code 429, the request is logged once with status
\* 429, and the client's list gains no timestamp; the handler is called
\* once in a route call iff the rate limit admits it.
C9_RejectedNeverReachesHandler ==
  /\ last.op = "route" =>
       /\ last.invoked = (IF last.admitted THEN 1 ELSE 0)
       /\ ~last.admitted =>
            /\ last.status_code = 429
            /\ LoggedOnce(429)
            /\ Len(rate_limit[last.client]) <= Len(StampsBefore(last.client))
            /\ Count(rate_limit[last.client], last.at)
                 = Count(StampsBefore(last.client), last.at)
  /\ handler_calls = Cardinality({i \in 1..Len(checks) : checks[i].admitted})

\* a rejected call whose handler would have raised
C9_Witness ==
  /\ last.op = "route" /\ ~last.admitted
  /\ last.handler.kind = "raise"
  /\ last.status_code = 429
  /\ handler_calls = 1

\* C10: when the rate limit admits a route call and the handler returns a
\* (body, status) pair, the response is that status and that body; when it
\* returns a bare body, the response is 200 and that body; the entry logged
\* for the call carries the status of the response.
C10_NormalResponse ==
  (last.op = "route" /\ last.admitted) =>
    /\ (last.handler.kind = "tuple" /\ last.handler.len = 2) =>
         /\ last.status_code = last.handler.status
         /\ last.body = last.handler.body
         /\ LoggedOnce(last.handler.status)
    /\ last.handler.kind = "bare" =>
         /\ last.status_code = 200
         /\ last.body = last.handler.body
         /\ LoggedOnce(200)

\* a handler returning (body, 201), and before it one returning a bare body
C10_Witness ==
  /\ last.op = "route" /\ last.admitted
  /\ last.handler.kind = "tuple" /\ last.handler.status = 201
  /\ last.status_code = 201 /\ last.body = OkBody
  /\ Len(request_log) = 2 /\ request_log[1].status = 200

\* C11: the authentication step accepts every request, with a credential
\* header or without: no route call returns status_code 401, no entry of the
\* request log has status 401, and every call the rate limit admits reaches
\* its handler, whatever the headers.
C11_AuthAcceptsEveryRequest ==
  /\ \A i \in 1..Len(request_log) : request_log[i].status # 401
  /\ last.op = "route" =>
       /\ last.status_code # 401
       /\ last.body # UnauthorizedBody
       /\ last.admitted => last.invoked = 1

\* a call without credentials reached its handler, after one with credentials
C11_Witness ==
  /\ last.op = "route" /\ ~last.has_key
  /\ last.admitted /\ last.invoked = 1 /\ last.status_code = 201
  /\ handler_calls = 2

\* the message texts of the failures the handlers raise
FailureTexts == {h.text : h \in {g \in Handlers : g.kind = "raise"}}

\* C18: the response of route for a handler that raises does not depend on
\* the message text of the failure: a run that differs from this one only in
\* that text returns the same status_code and the same body.
C18_ResponseHidesFailureText ==
  (last.op = "route" /\ last.admitted /\ last.handler.kind = "raise") =>
    \A text \in FailureTexts :
      LET other == Dispatch([last.handler EXCEPT !.text = text]) IN
      /\ other.status_code = last.status_code
      /\ other.body = last.body

(***************************************************************************)
(* Stage claims.                                                           *)
(***************************************************************************)
\* C12: every invoke_lambda call calls the handler once, with the payload it
\* was given and a context built for this call; when the handler returns,
\* invoke_lambda returns the handler's result; when the handler raises, the
\* exception leaves invoke_lambda and the handler is not called again.  The
\* announcer's one call shows in the notification log: one line more when
\* it returned, none when it raised.
C12_InvokeCallsHandlerOnce ==
  stage.op = "invoke" =>
    /\ stage.calls = << [payload |-> stage.payload,
                         context |-> [invoked_at |-> stage.at]] >>
    /\ stage.raised <=> stage.handler_out.raised
    /\ ~stage.raised => stage.result = stage.handler_out.result
    /\ stage.raised => stage.exc = stage.handler_out.exc /\ stage.exc \in StageExceptions
    /\ Len(sns_log.data) =
         Len(stage.log_before)
         + (IF stage.handler = "lambda_announcer" /\ ~stage.raised THEN 1 ELSE 0)

\* a handler that raised, after a call at an earlier time whose handler returned
C12_Witness ==
  /\ stage.op = "invoke" /\ stage.n = 2
  /\ stage.raised /\ stage.exc = "AttributeError"
  /\ stage.at > 0
  /\ Len(sns_log.data) = 1 /\ sns_log.data[1].timestamp = 0

\* the athletes of the matches, in the order of the matches
RECURSIVE Flat(_)
Flat(confrontos) ==
  IF confrontos = << >> THEN << >>
  ELSE confrontos[1].atletas \o Flat(Tail(confrontos))

IsBye(confronto) == confronto.round = "Avanço Automático"

\* C20: for n >= 2 athletes and every outcome of the shuffle,
\* lambda_matchmaker returns ceil(n/2) matches and every athlete of the
\* event is in exactly one of them; for n even no match is a bye and every
\* match has two athletes; for n odd the last match, and only it, is a bye
\* and has one athlete.  For n < 2 the list of matches is empty.
C20_MatchmakerPairs ==
  (stage.op = "invoke" /\ stage.handler = "lambda_matchmaker") =>
    LET atletas == IF stage.payload = EmptyMsg THEN << >> ELSE stage.payload[1][3]
        n == Len(atletas)
        confrontos == stage.result.confrontos
        m == Len(confrontos)
    IN /\ ~stage.raised
       /\ n < 2 => confrontos = << >>
       /\ n >= 2 =>
            /\ 2 * m >= n /\ 2 * (m - 1) < n
            /\ \A i \in 1..n : Count(Flat(confrontos), atletas[i]) = 1
            /\ Len(Flat(confrontos)) = n
            /\ \A k \in 1..m :
                 LET bye == n % 2 = 1 /\ k = m IN
                 /\ IsBye(confrontos[k]) <=> bye
                 /\ Len(confrontos[k].atletas) = (IF bye THEN 1 ELSE 2)
                 /\ confrontos[k].luta_id
                      = "LUTA-" \o ToString(k) \o (IF bye THEN "-BYE" ELSE "")

\* five athletes, shuffled out of their order: three matches, the last a bye
C20_Witness ==
  /\ stage.op = "invoke" /\ stage.handler = "lambda_matchmaker"
  /\ stage.payload = MatchmakerEvent(5)
  /\ stage.perm # [i \in 1..5 |-> i]
  /\ Len(stage.result.confrontos) = 3
  /\ stage.result.confrontos[3].luta_id = "LUTA-3-BYE"
  /\ ~IsBye(stage.result.confrontos[2])

\* C13: the notification log is append-only: it holds the line of every
\* publish_sns call that has returned, one line per call, in the order of
\* the calls; no operation (the construction of another MockAWS on the same
\* state directory included) changes, removes or reorders a line.
C13_LogAppendOnly ==
  sns_log.data = MsgsOf(Published)

(***************************************************************************)
(* Worker claims.                                                          *)
(***************************************************************************)
\* C14: in the worker loop a failure of receive_sqs or of the announcer does
\* not end the loop: main is stopped only by KeyboardInterrupt, and after a
\* failure is caught the loop comes back to its top for a further poll,
\* unless a KeyboardInterrupt stops it first.
C14_FailureNeverStopsWorker ==
  /\ [](wk.pc = "stopped" => wk.stopped_by = "KeyboardInterrupt")
  /\ (wk.pc = "sleep" /\ wk.caught > 0 /\ wk.failed_poll = wk.polls)
       ~> (wk.pc = "poll" \/ wk.pc = "stopped")

\* the queue file is damaged: two polls failed in receive_sqs and the third
\* is under way
C14_Witness ==
  /\ wk.pc = "receive" /\ wk.polls = 3
  /\ wk.caught = 2 /\ wk.failed_poll = 2
  /\ wk.passed = << >>
  /\ \A i \in 1..Len(opLog) : opLog[i].res = "error"

\* the messages the worker's receive_sqs calls have returned, and those of
\* them that process_next_message passes on (a message that is {} is not)
WorkerGot == MsgsOf(Returned(QUEUE_NAME))
WorkerKept == SelectSeq(WorkerGot, LAMBDA m : m # << >>)

\* C19: the worker does not retry: each message it takes from the queue is
\* passed to the announcer at most once, in the order of the queue; when the
\* announcer fails for a message, the message is not back in the queue file
\* and is not passed again, and the next receive returns the message that
\* followed it in the queue.
C19_WorkerNeverRetries ==
  LET given == [i \in 1..Len(wk.passed) |-> wk.passed[i].msg]
      held == preload[QUEUE_NAME]
  IN /\ Len(WorkerGot) <= Len(held)
     /\ WorkerGot = SubSeq(held, 1, Len(WorkerGot))
     /\ Len(given) <= Len(WorkerKept)
     /\ given = SubSeq(WorkerKept, 1, Len(given))
     /\ \A i, j \in 1..Len(wk.passed) : i < j => wk.passed[i].poll < wk.passed[j].poll
     /\ Len(sns_log.data) = Len(SelectSeq(wk.passed, LAMBDA e : e.ok))
     /\ (pc[WorkerProc] = "idle" /\ Stored(QUEUE_NAME).ok)
          => Stored(QUEUE_NAME).val = SubSeq(held, Len(WorkerGot) + 1, Len(held))

\* the announcer failed for the first message; the next poll took the second
\* one and announced it
C19_Witness ==
  /\ Len(wk.passed) = 2
  /\ wk.passed[1] = [msg |-> NamesMsg, poll |-> 1, ok |-> FALSE]
  /\ wk.passed[2] = [msg |-> LutaMsg, poll |-> 2, ok |-> TRUE]
  /\ wk.caught = 1
  /\ Len(sns_log.data) = 1
  /\ Stored(QUEUE_NAME).val = << >>

\* C15: every message that chamar_luta has put on the queue is taken by the
\* worker and announced.  Stated on the runs' quiet states: when no queue
\* call is running, the worker holds no message and the queue file is
\* empty, every message sent has been passed to the announcer and has its
\* line in the notification log.
C15_EveryLutaAnnounced ==
  ( /\ AllIdle /\ wk.pc \in {"poll", "sleep"}
    /\ Stored(QUEUE_NAME).ok /\ Stored(QUEUE_NAME).val = << >> )
  => /\ Len(SentTo(QUEUE_NAME)) <= Len(SelectSeq(wk.passed, LAMBDA e : e.ok))
     /\ Len(SentTo(QUEUE_NAME)) <= Len(sns_log.data)

(***************************************************************************)
(* Frame claims.                                                           *)
(***************************************************************************)
\* the file of queue q does not hold a JSON list
Damaged(q) == files[q].exists /\ ~json_loads(files[q].data).ok

\* the messages a first-in first-out queue q that held the list held has
\* after the calls of log that returned
RECURSIVE QueueAfter(_, _, _)
QueueAfter(held, log, q) ==
  IF log = << >> THEN held
  ELSE LET e == Head(log) IN
       IF e.queue # q \/ e.res # "ok" THEN QueueAfter(held, Tail(log), q)
       ELSE IF e.kind = "send" THEN QueueAfter(Append(held, e.msg), Tail(log), q)
       ELSE IF held = << >> THEN QueueAfter(held, Tail(log), q)
       ELSE QueueAfter(Tail(held), Tail(log), q)

\* C16: queues are independent.  A step of send_sqs or receive_sqs changes
\* no queue file but the one of the queue it was called for; a call on a
\* queue whose file is damaged fails and leaves every queue file as it was;
\* and calls fail on damaged queues only, so calls on the other queues go on
\* succeeding, and each of those queues holds what its own calls left in it.
C16_QueuesIndependent ==
  /\ [][ /\ \A q \in QueueNames :
              files'[q] # files[q] => \E p \in Procs : pc[p] # "idle" /\ loc[p].queue = q
         /\ \A p \in Procs :
              (pc[p] = "read" /\ pc'[p] # "read" /\ Damaged(loc[p].queue))
                => /\ files' = files
                   /\ pc'[p] = "idle"
                   /\ opLog' = Append(opLog, Ended(p, "error", << >>)) ]_vars
  /\ [](\A i \in 1..Len(opLog) : opLog[i].res = "error" => Damaged(opLog[i].queue))
  /\ [](\A q \in QueueNames :
          (AllIdle /\ ~Damaged(q)) => Stored(q).val = QueueAfter(preload[q], opLog, q))

\* a send failed on the damaged queue; after it a send and two receives on
\* the other queue returned the message it held and the message sent
C16_Witness ==
  /\ Len(opLog) = 4
  /\ opLog[1].res = "error" /\ opLog[1].kind = "send" /\ opLog[1].queue = QUEUE_NAME
  /\ files[QUEUE_NAME] = FileOf(Corrupted(<<Msg2>>))
  /\ \A i \in 2..4 : opLog[i].queue = "resultados" /\ opLog[i].res = "ok"
  /\ opLog[2].kind = "send" /\ opLog[2].msg = Msg1
  /\ opLog[3].kind = "recv" /\ opLog[3].msg = Msg2
  /\ opLog[4].kind = "recv" /\ opLog[4].msg = Msg1


\* C17: get_stats is a read-only snapshot.  After a get_stats call, and until
\* the next route call, the request log and every client's rate-limit window
\* are what they were before the call; and a get_stats call that follows
\* another with no route call in between returns the same total_requests,
\* status_counts and active_clients.
C17_StatsReadOnly ==
  last.op = "stats" =>
    /\ request_log = last.log_before
    /\ rate_limit = last.before
    /\ last.stats[1] = get_stats
    /\ last.prev_stats # << >> =>
         /\ last.stats[1].total_requests = last.prev_stats[1].total_requests
         /\ last.stats[1].status_counts = last.prev_stats[1].status_counts
         /\ last.stats[1].active_clients = last.prev_stats[1].active_clients

\* two get_stats calls in a row, the clock advancing, after an admitted request
\* and a rejected one of the same client
C17_Witness ==
  /\ last.op = "stats"
  /\ last.prev_stats # << >>
  /\ ticks = 1
  /\ last.stats[1].total_requests = 2
  /\ 429 \in DOMAIN last.stats[1].status_counts
  /\ last.stats[1].status_counts[429] = 1
  /\ last.stats[1].active_clients = 1
  /\ rate_limit # NoStamps


\* the results of a list that name the winner w, and the first of them
NamedBy(resultados, w) == {i \in 1..Len(resultados) : WinnerName(resultados[i]) = w}
FirstSeen(resultados, w) ==
  CHOOSE i \in NamedBy(resultados, w) : \A j \in NamedBy(resultados, w) : i <= j

\* C21: lambda_statistics returns a ranking that holds each distinct winner
\* exactly once, with a win count equal to the number of results that name
\* the winner, in non-increasing order of win count, winners of equal count in
\* first-seen order; total_lutas is the number of results.
C21_RankingByWins ==
  stage.op = "statistics" =>
    LET resultados == stage.payload
        ranking == stage.result.ranking
        winners == {WinnerName(resultados[i]) : i \in 1..Len(resultados)} \ {""}
    IN /\ stage.result.total_lutas = Len(resultados)
       /\ {ranking[k].atleta : k \in 1..Len(ranking)} = winners
       /\ Len(ranking) = Cardinality(winners)
       /\ \A k \in 1..Len(ranking) :
            ranking[k].vitorias = Cardinality(NamedBy(resultados, ranking[k].atleta))
       /\ \A k, l \in 1..Len(ranking) :
            k < l =>
              \/ ranking[k].vitorias > ranking[l].vitorias
              \/ /\ ranking[k].vitorias = ranking[l].vitorias
                 /\ FirstSeen(resultados, ranking[k].atleta)
                      < FirstSeen(resultados, ranking[l].atleta)

\* winners B, A, C, A: A comes first with 2 wins, then B and C as first seen
C21_Witness ==
  /\ stage.op = "statistics"
  /\ Len(stage.payload) = 4
  /\ [i \in 1..4 |-> WinnerName(stage.payload[i])] = <<"B", "A", "C", "A">>
  /\ stage.payload[2].kind # stage.payload[4].kind
  /\ stage.result.ranking = << [atleta |-> "A", vitorias |-> 2],
                               [atleta |-> "B", vitorias |-> 1],
                               [atleta |-> "C", vitorias |-> 1] >>


\* the request lacks one of the fields the handler requires
LacksField(handler, payload) == \E field \in Required[handler] : ~Truthy(payload, field)

\* C22: in cadastrar_atleta, chamar_luta and registrar_resultado a request
\* that is missing a required field is answered with status 400 before any
\* stage is invoked: the step that handles it invokes no stage, starts no
\* send_sqs, publishes nothing and stores nothing.
C22_MissingFieldIs400 ==
  [][ /\ (app'.n # app.n /\ LacksField(app'.req.handler, app'.req.payload))
         => /\ app'.req.status = 400
            /\ app'.req.stages = << >>
            /\ app'.pc = "idle"
            /\ app'.atletas = app.atletas
            /\ app'.resultados = app.resultados
            /\ app'.backup = app.backup
            /\ sns_log' = sns_log
            /\ files' = files
            /\ pc' = pc
      /\ (pc[ProducerProc] = "idle" /\ pc'[ProducerProc] # "idle")
         => ~LacksField("chamar_luta", loc'[ProducerProc].msg)
      /\ (pc[ProducerProc] = "idle" /\ Len(opLog') > Len(opLog))
         => /\ opLog'[Len(opLog')].res = "400"
            /\ LacksField("chamar_luta", opLog'[Len(opLog')].msg)
            /\ files' = files
            /\ sns_log' = sns_log
            /\ app' = app
            /\ pc' = pc ]_vars

\* a result without a winner answered with 400, after a result that went
\* through every stage and a /chamar-luta request without athletes
C22_Witness ==
  /\ app.n = 2
  /\ app.req.handler = "registrar_resultado"
  /\ ~Truthy(app.req.payload, "vencedor")
  /\ app.req.status = 400
  /\ Len(app.resultados) = 1
  /\ Len(sns_log.data) = 1
  /\ \E i \in 1..Len(opLog) : opLog[i].res = "400" /\ opLog[i].msg = NoAtletasPayload


\* the entries of the historian's backup file
Entries(file) == IF file.exists THEN json_loads(file.data).val ELSE << >>

\* the request at hand or handled last is a result that passed the validation
ResultRequest ==
  /\ app.req.handler = "registrar_resultado"
  /\ ~LacksField("registrar_resultado", app.req.payload)

\* the result of the request is stored, behind the results stored before it
ResultStored ==
  /\ Len(app.resultados) = Len(app.req.before.resultados) + 1
  /\ SubSeq(app.resultados, 1, Len(app.resultados) - 1) = app.req.before.resultados
  /\ Member(Registro, "luta_id") = Member(app.req.payload, "luta_id")
  /\ Member(Registro, "vencedor") = Member(app.req.payload, "vencedor")

\* the backup holds one entry more than before the request, for its fight
ResultBackedUp ==
  LET dados == Entries(app.backup) IN
  /\ json_loads(app.backup.data).ok
  /\ Len(dados) = Len(Entries(app.req.before.backup)) + 1
  /\ SubSeq(dados, 1, Len(dados) - 1) = Entries(app.req.before.backup)
  /\ Member(dados[Len(dados)], "luta_id") = Member(app.req.payload, "luta_id")
  /\ Member(dados[Len(dados)], "vencedor") = Member(app.req.payload, "vencedor")

\* C24: registrar_resultado stores the result, then calls the historian, then
\* the notifier.  A notification is published only for a result that is stored
\* and in the backup; when the historian fails the result stays stored and
\* nothing is published; when the notifier fails the stored result and the
\* backup entry stay.
C24_StoreBackupNotify ==
  /\ [][sns_log' # sns_log
          => /\ app.pc = "notifier"
             /\ ResultRequest /\ ResultStored /\ ResultBackedUp
             /\ app.req.stages = <<"Lambda 3 - Historian">>
             /\ sns_log'.data = Append(sns_log.data, sns_log'.data[Len(sns_log'.data)])
             /\ sns_log'.data[Len(sns_log'.data)].topic = "jiujitsu-resultados"]_vars
  /\ [](ResultRequest =>
          /\ app.req.stages \in {<< >>, <<"Lambda 3 - Historian">>,
                                 <<"Lambda 3 - Historian", "Lambda Notifier">>}
          /\ ResultStored
          /\ app.req.stages = << >> <=> app.pc = "historian"
          /\ (app.req.exc # "" /\ app.req.stages = <<"Lambda 3 - Historian">>)
               => /\ app.req.status = 500
                  /\ sns_log = app.req.before.sns_log
          /\ Len(app.req.stages) = 2
               => /\ ResultBackedUp
                  /\ app.req.status = IF app.req.exc # "" THEN 500 ELSE 201
                  /\ app.req.exc # "" => sns_log = app.req.before.sns_log
                  /\ app.req.exc = ""
                       => Len(sns_log.data) = Len(app.req.before.sns_log.data) + 1)

\* a result stored, added to a backup that held one entry, and notified
C24_Witness ==
  /\ ResultRequest
  /\ app.req.status = 201
  /\ app.req.stages = <<"Lambda 3 - Historian", "Lambda Notifier">>
  /\ Len(Entries(app.backup)) = 2
  /\ ResultStored /\ ResultBackedUp
  /\ sns_log.data = << sns_record("jiujitsu-resultados",
                                  "Resultado da LUTA-8: Bia venceu por Finalização!") >>


\* the sum of the values of a dict of counts
RECURSIVE SumOf(_)
SumOf(counts) ==
  IF DOMAIN counts = {} THEN 0
  ELSE LET k == CHOOSE x \in DOMAIN counts : TRUE IN
       counts[k] + SumOf([x \in DOMAIN counts \ {k} |-> counts[x]])

\* C23: every route call that returns (429, a normal response, or a handler
\* failure turned into 500) appends exactly one entry to the request log, for
\* its client and with its status; so get_stats reports a total_requests equal
\* to the number of route calls, status_counts that sum to it, and an
\* active_clients equal to the number of distinct clients passed to route,
\* those whose requests were all rejected included.
C23_OneLogEntryPerRoute ==
  /\ Len(request_log) = Len(checks)
  /\ \A i \in 1..Len(checks) :
       /\ request_log[i].client_ip = checks[i].client
       /\ request_log[i].status = 429 <=> ~checks[i].admitted
  /\ last.op = "route" => Len(request_log) = last.logged + 1 /\ ~last.raised
  /\ get_stats.total_requests = Len(checks)
  /\ SumOf(get_stats.status_counts) = get_stats.total_requests
  /\ get_stats.active_clients = Cardinality({checks[i].client : i \in 1..Len(checks)})
  /\ last.op = "stats" => last.stats[1] = get_stats

\* get_stats after three route calls of two clients: a handler failure, a
\* rejection and a normal response
C23_Witness ==
  /\ last.op = "stats"
  /\ Len(checks) = 3
  /\ [i \in 1..3 |-> request_log[i].status] = <<500, 429, 201>>
  /\ checks[1].client = checks[2].client /\ checks[3].client # checks[1].client
  /\ last.stats[1].total_requests = 3
  /\ last.stats[1].active_clients = 2
  /\ last.stats[1].status_counts[429] = 1


\* the timestamps the limiter would hold for client c after the first n calls
\* if the calls of the other clients had never been made
RECURSIVE OwnStamps(_, _)
OwnStamps(c, n) ==
  IF n = 0 THEN << >>
  ELSE LET e == checks[n]
           kept == SelectSeq(OwnStamps(c, n - 1),
                             LAMBDA ts : e.at - ts < rate_limit_window)
       IN IF e.client # c THEN OwnStamps(c, n - 1)
          ELSE IF Len(kept) >= max_requests_per_window THEN kept
          ELSE Append(kept, e.at)

\* C25: rate limiting is per client.  A call of _check_rate_limit, direct or
\* through route, for one client leaves the stored list of every other client
\* as it was; and every decision, and every stored list, is what the calls of
\* that client alone and their times give, whatever the other clients did.
C25_PerClient ==
  /\ last.op \in {"check", "route"} =>
       \A b \in Clients \ {last.client} :
         /\ b \in DOMAIN rate_limit <=> b \in DOMAIN last.before
         /\ b \in DOMAIN rate_limit => rate_limit[b] = last.before[b]
  /\ \A i \in 1..Len(checks) :
       checks[i].admitted <=>
         Len(OwnStamps(checks[i].client, i)) > 0
           /\ OwnStamps(checks[i].client, i)[Len(OwnStamps(checks[i].client, i))] = checks[i].at
           /\ OwnStamps(checks[i].client, i) # OwnStamps(checks[i].client, i - 1)
  /\ \A c \in Clients :
       /\ c \in DOMAIN rate_limit <=> \E i \in 1..Len(checks) : checks[i].client = c
       /\ c \in DOMAIN rate_limit => rate_limit[c] = OwnStamps(c, Len(checks))

\* at one time, under a ceiling of 1: a client admitted, the same client
\* rejected, then the other client admitted by a route call
C25_Witness ==
  /\ max_requests_per_window = 1
  /\ Len(checks) = 3
  /\ checks[1].client = checks[2].client /\ checks[3].client # checks[1].client
  /\ checks[1].admitted /\ ~checks[2].admitted /\ checks[3].admitted
  /\ checks[3].at = checks[1].at
  /\ last.op = "route" /\ last.client = checks[3].client
  /\ rate_limit[checks[1].client] = <<checks[1].at>>
  /\ rate_limit[checks[3].client] = <<checks[3].at>>

====
